---- MODULE Spec2Model ----
(***************************************************************************)
(* Akcero AI Product Builder: the staged orchestration pipeline            *)
(* (core/umbrella_agent.py), the text-completion client (core/deps.py),    *)
(* the six agents (agents/*.py) and the rule-based synthesis engine        *)
(* (agents/agent_utils.py).                                                *)
(*                                                                         *)
(* Python strings are TLA+ strings; the str methods the code uses          *)
(* (strip, lower, title, in, split, replace, format, repr) are operators   *)
(* computed character by character.                                        *)
(***************************************************************************)
EXTENDS Integers, Sequences, FiniteSets, TLC

\* ------------------------------------------------------------------------
\* Python str primitives
\* ------------------------------------------------------------------------

\* s[i-1] of Python, as a one-character string.
Char(s, i) == SubSeq(s, i, i)

\* The characters str.strip(), str.split() and the regex class \s treat as
\* whitespace (of those that occur in ASCII text).
WS == {" ", "\t", "\n", "\r", "\f"}

UPPER == "ABCDEFGHIJKLMNOPQRSTUVWXYZ"

LOWERCASE == "abcdefghijklmnopqrstuvwxyz"

DIGITS == "0123456789"

UpperSet == {Char(UPPER, i) : i \in 1..26}

LowerSet == {Char(LOWERCASE, i) : i \in 1..26}

DigitSet == {Char(DIGITS, i) : i \in 1..10}

LetterSet == UpperSet \cup LowerSet

ToLowerMap == [c \in UpperSet |-> Char(LOWERCASE, CHOOSE i \in 1..26 : Char(UPPER, i) = c)]

ToUpperMap == [c \in LowerSet |-> Char(UPPER, CHOOSE i \in 1..26 : Char(LOWERCASE, i) = c)]

LowerChar(c) == IF c \in UpperSet THEN ToLowerMap[c] ELSE c

UpperChar(c) == IF c \in LowerSet THEN ToUpperMap[c] ELSE c

SetMin(S) == CHOOSE x \in S : \A y \in S : x <= y

SetMax(S) == 0 - SetMin({0 - x : x \in S})

\* "".join(pieces[lo-1:hi]), by halving so that the recursion stays shallow.
RECURSIVE JoinRange(_, _, _)
JoinRange(pieces, lo, hi) ==
  IF lo > hi THEN ""
  ELSE IF lo = hi THEN pieces[lo]
  ELSE LET mid == (lo + hi) \div 2
       IN JoinRange(pieces, lo, mid) \o JoinRange(pieces, mid + 1, hi)

\* "".join(pieces)
Concat(pieces) == JoinRange(pieces, 1, Len(pieces))

\* sep.join(items)
Join(sep, items) ==
  IF Len(items) = 0 THEN ""
  ELSE Concat([i \in 1..(2 * Len(items) - 1) |->
                 IF i % 2 = 1 THEN items[(i + 1) \div 2] ELSE sep])

\* str.lower()
Lower(s) == Concat([i \in 1..Len(s) |-> LowerChar(Char(s, i))])

\* str.title(): a letter is upper-cased when the character before it is not a
\* letter, and lower-cased otherwise.
Title(s) ==
  Concat([i \in 1..Len(s) |->
    IF i = 1 \/ Char(s, i - 1) \notin LetterSet
      THEN UpperChar(Char(s, i))
      ELSE LowerChar(Char(s, i))])

\* str.strip()
Strip(s) ==
  LET n == Len(s)
      \* number of whitespace characters at the start and at the end
      lead == CHOOSE k \in 0..n :
                /\ \A j \in 1..k : Char(s, j) \in WS
                /\ (k = n \/ Char(s, k + 1) \notin WS)
      trail == CHOOSE k \in 0..n :
                 /\ \A j \in 1..k : Char(s, n + 1 - j) \in WS
                 /\ (k = n \/ Char(s, n - k) \notin WS)
  IN IF lead = n THEN "" ELSE SubSeq(s, lead + 1, n - trail)

\* t in s
Contains(s, t) ==
  \E i \in 1..(Len(s) - Len(t) + 1) : SubSeq(s, i, i + Len(t) - 1) = t

\* any(t in s for t in ts)
ContainsAny(s, ts) == \E t \in ts : Contains(s, t)

\* s.replace(old, new) for a one-character old.
ReplaceChar(s, old, new) ==
  Concat([i \in 1..Len(s) |-> IF Char(s, i) = old THEN new ELSE Char(s, i)])

\* s.replace(old, new): every non-overlapping occurrence, left to right.
RECURSIVE Replace(_, _, _)
Replace(s, old, new) ==
  LET hits == {i \in 1..(Len(s) - Len(old) + 1) : SubSeq(s, i, i + Len(old) - 1) = old}
  IN IF hits = {} \/ old = "" THEN s
     ELSE LET p == SetMin(hits)
          IN SubSeq(s, 1, p - 1) \o new
               \o Replace(SubSeq(s, p + Len(old), Len(s)), old, new)

\* len(s.split()): the number of maximal runs of non-whitespace.
WordCount(s) ==
  Cardinality({i \in 1..Len(s) :
                 Char(s, i) \notin WS /\ (i = 1 \/ Char(s, i - 1) \in WS)})

\* s.split(sep)[0]
BeforeFirst(s, sep) ==
  LET hits == {i \in 1..Len(s) : Char(s, i) = sep}
  IN IF hits = {} THEN s ELSE SubSeq(s, 1, SetMin(hits) - 1)

\* s.splitlines()[0] for a non-empty s.
FirstLine(s) ==
  LET hits == {i \in 1..Len(s) : Char(s, i) \in {"\n", "\r", "\f"}}
  IN IF hits = {} THEN s ELSE SubSeq(s, 1, SetMin(hits) - 1)

\* [x for x in seq if keep(x)] for a set of kept indexes.
RECURSIVE PickIndexes(_, _)
PickIndexes(seq, idx) ==
  IF idx = {} THEN <<>>
  ELSE LET i == SetMin(idx) IN <<seq[i]>> \o PickIndexes(seq, idx \ {i})

\* list(dict.fromkeys(reversed(items))): last occurrences, last one first.
DedupeReversed(items) ==
  LET n == Len(items)
      rev == [i \in 1..n |-> items[n + 1 - i]]
  IN PickIndexes(rev, {i \in 1..n : \A j \in 1..(i - 1) : rev[j] # rev[i]})

\* list(dict.fromkeys(items)): first occurrences, in order.
Dedupe(items) ==
  PickIndexes(items, {i \in 1..Len(items) : \A j \in 1..(i - 1) : items[j] # items[i]})

\* x in items, for a list.
InList(x, items) == \E i \in 1..Len(items) : items[i] = x

\* ------------------------------------------------------------------------
\* agents/agent_utils.py: fixed tables
\* ------------------------------------------------------------------------

STOPWORDS ==
  { "the", "and", "for", "with", "that", "from", "into", "this", "your", "their",
    "about", "will", "make", "build", "help", "using", "through", "across", "data",
    "user", "users", "product", "ai", "artificial", "intelligence", "system",
    "platform", "experience", "solution", "create", "creating", "design", "digital",
    "idea", "ideas", "team", "teams" }

\* The keys of DOMAIN_CATEGORY in insertion order (the order infer_domain scans).
DOMAIN_ORDER ==
  << "Healthcare & Wellness", "Finance & Fintech", "Education & Learning",
     "Commerce & Retail", "Productivity & Collaboration", "Customer Experience",
     "Developer Tools", "Marketing & Growth", "Sustainability & Climate",
     "Manufacturing & Industry", "Technology & Innovation" >>

DOMAIN_CATEGORY ==
  [ d \in {DOMAIN_ORDER[i] : i \in 1..Len(DOMAIN_ORDER)} |->
      CASE d = "Healthcare & Wellness" -> "Healthcare"
        [] d = "Finance & Fintech" -> "Finance"
        [] d = "Education & Learning" -> "Education"
        [] d = "Commerce & Retail" -> "Commerce"
        [] d = "Productivity & Collaboration" -> "Productivity"
        [] d = "Customer Experience" -> "Customer"
        [] d = "Developer Tools" -> "Developer"
        [] d = "Marketing & Growth" -> "Marketing"
        [] d = "Sustainability & Climate" -> "Sustainability"
        [] d = "Manufacturing & Industry" -> "Industry"
        [] d = "Technology & Innovation" -> "Innovation" ]

\* The keys of ATTRIBUTE_KEYWORDS in insertion order.
ATTRIBUTE_ORDER ==
  << "regulatory", "marketplace", "hardware", "realtime", "data_heavy", "mobile",
     "enterprise", "community", "developer", "ai_native" >>

AttributeNames == {ATTRIBUTE_ORDER[i] : i \in 1..Len(ATTRIBUTE_ORDER)}

ATTRIBUTE_KEYWORDS ==
  [ regulatory |-> { "regulation", "regulated", "compliance", "hipaa", "gdpr", "sox",
                     "audit", "risk", "governance" },
    marketplace |-> { "marketplace", "two-sided", "multi-sided", "buyers", "sellers",
                      "vendors", "matching" },
    hardware |-> { "hardware", "device", "sensor", "iot", "wearable", "embedded" },
    realtime |-> { "real-time", "realtime", "live", "streaming", "instant", "event-driven" },
    data_heavy |-> { "analytics", "warehouse", "lakehouse", "big data", "data", "insight",
                     "forecast" },
    mobile |-> { "mobile", "ios", "android", "smartphone" },
    enterprise |-> { "enterprise", "fortune", "corporate", "global" },
    community |-> { "community", "social", "network", "member" },
    developer |-> { "developer", "api", "sdk", "cli", "devops" },
    ai_native |-> { "agent", "agents", "multi-agent", "autonomous" } ]

\* COMPLEXITY_WEIGHTS.get(attr, 1): ai_native has no entry and weighs 1.
COMPLEXITY_WEIGHTS ==
  [ regulatory |-> 2, marketplace |-> 2, hardware |-> 2, enterprise |-> 1,
    data_heavy |-> 1, realtime |-> 1, developer |-> 1, mobile |-> 1, community |-> 1 ]

\* Profiles whose complex tier has a gap between its third and fourth window.
TIMELINE_WINDOWS_Gap ==
  [ lean |-> << "Weeks 1-2", "Weeks 3-5", "Weeks 6-9", "Weeks 10-13", "Weeks 14-16" >>,
    standard |-> << "Weeks 1-3", "Weeks 4-7", "Weeks 8-13", "Weeks 14-18", "Weeks 19-22" >>,
    complex |-> << "Weeks 1-4", "Weeks 5-9", "Weeks 10-15", "Weeks 17-22", "Weeks 23-26" >> ]

TIMELINE_WINDOWS ==
  [ lean |-> << "Weeks 1-2", "Weeks 3-5", "Weeks 6-9", "Weeks 10-13", "Weeks 14-16" >>,
    standard |-> << "Weeks 1-3", "Weeks 4-7", "Weeks 8-13", "Weeks 14-18", "Weeks 19-22" >>,
    complex |-> << "Weeks 1-4", "Weeks 5-9", "Weeks 10-16", "Weeks 17-22", "Weeks 23-26" >> ]

TIMELINE_TOTAL == [ lean |-> 16, standard |-> 22, complex |-> 26 ]

\* ------------------------------------------------------------------------
\* agents/agent_utils.py: text heuristics
\* ------------------------------------------------------------------------

\* re.sub(r"\s+", " ", text.strip())
normalize(text) ==
  LET t == Strip(text)
  IN Concat([i \in 1..Len(t) |->
       IF Char(t, i) \notin WS THEN Char(t, i)
       ELSE IF Char(t, i - 1) \notin WS THEN " " ELSE ""])

\* re.split(r"[.!?]\s+", text): a separator is one of . ! ? followed by a
\* maximal run of whitespace; the pieces are what lies between separators.
SentencePieces(text) ==
  LET n == Len(text)
      seps == {i \in 1..(n - 1) : Char(text, i) \in {".", "!", "?"} /\ Char(text, i + 1) \in WS}
      \* first index after the whitespace run that follows separator i
      after(i) == SetMin({j \in (i + 2)..(n + 1) : j = n + 1 \/ Char(text, j) \notin WS})
      starts == {1} \cup {after(i) : i \in seps}
      stop(p) == IF \E i \in seps : i >= p THEN SetMin({i \in seps : i >= p}) - 1 ELSE n
      ordered == PickIndexes([p \in 1..(n + 1) |-> p], starts)
  IN [k \in 1..Len(ordered) |-> SubSeq(text, ordered[k], stop(ordered[k]))]

tokenize_sentences(text) ==
  LET pieces == SentencePieces(text)
      normal == [k \in 1..Len(pieces) |-> normalize(pieces[k])]
  IN PickIndexes(normal, {k \in 1..Len(normal) : normal[k] # ""})

\* re.findall(r"[a-zA-Z][a-zA-Z0-9-]+", lowered): within each maximal run of
\* letters, digits and hyphens the match starts at the first letter that has a
\* successor in the run, and extends to the end of the run.
WordSpans(lowered) ==
  LET n == Len(lowered)
      class == LetterSet \cup DigitSet \cup {"-"}
      inRun == {i \in 1..n : Char(lowered, i) \in class}
      runStarts == {i \in inRun : (i - 1) \notin inRun}
      runEnds == {i \in inRun : (i + 1) \notin inRun}
      letterAt == {i \in inRun : Char(lowered, i) \in LetterSet}
      runEnd(i) == SetMin({j \in runEnds : j >= i})
      hasMatch(i) == \E j \in letterAt : j >= i /\ j < runEnd(i)
      firstLetter(i) == SetMin({j \in letterAt : j >= i})
      ordered == PickIndexes([p \in 1..n |-> p], {i \in runStarts : hasMatch(i)})
  IN [k \in 1..Len(ordered) |->
        SubSeq(lowered, firstLetter(ordered[k]), runEnd(ordered[k]))]

\* The distinct words with the given count, in first-seen order, for the
\* counts from highest down to 1.
RECURSIVE ByCount(_, _, _)
ByCount(words, uniq, c) ==
  IF c < 1 THEN << >>
  ELSE PickIndexes(uniq, {k \in 1..Len(uniq) :
                            Cardinality({j \in 1..Len(words) : words[j] = uniq[k]}) = c})
         \o ByCount(words, uniq, c - 1)

\* Counter(filtered).most_common(limit): by count, ties in first-seen order.
extract_keywords(text, limit) ==
  LET words == WordSpans(Lower(text))
      filtered == PickIndexes(words, {k \in 1..Len(words) :
                                        words[k] \notin STOPWORDS /\ Len(words[k]) > 2})
      ranking == ByCount(filtered, Dedupe(filtered), Len(filtered))
      keywords == SubSeq(ranking, 1, IF Len(ranking) < limit THEN Len(ranking) ELSE limit)
  IN IF Len(keywords) > 0 THEN keywords ELSE << "innovation", "blueprint" >>

\* DOMAIN_CATEGORY.get(domain, domain.split("&")[0].strip() or "Innovation")
resolve_category(domain) ==
  IF domain \in DOMAIN DOMAIN_CATEGORY THEN DOMAIN_CATEGORY[domain]
  ELSE LET head == Strip(BeforeFirst(domain, "&"))
       IN IF head # "" THEN head ELSE "Innovation"

\* detect_attributes matching whole words only (keyword in lowered.split()).
detect_attributes_whole_words(text) ==
  LET lowered == " " \o Lower(text) \o " "
  IN [name \in AttributeNames |->
        ContainsAny(lowered, {" " \o keyword \o " " : keyword \in ATTRIBUTE_KEYWORDS[name]})]

\* {name: any(keyword in lowered for keyword in keywords) ...}
detect_attributes(text) ==
  LET lowered == Lower(text)
  IN [name \in AttributeNames |-> ContainsAny(lowered, ATTRIBUTE_KEYWORDS[name])]

RECURSIVE SumWeights(_)
SumWeights(attrs) ==
  IF attrs = {} THEN 0
  ELSE LET a == CHOOSE x \in attrs : TRUE
       IN (IF a \in DOMAIN COMPLEXITY_WEIGHTS THEN COMPLEXITY_WEIGHTS[a] ELSE 1)
            + SumWeights(attrs \ {a})

\* A score whose word-count thresholds are inclusive (>= 140, >= 220).
ComplexityScoreInclusive(word_count, attributes) ==
  1 + SumWeights({a \in DOMAIN attributes : attributes[a]})
    + (IF word_count >= 140 THEN 1 ELSE 0)
    + (IF word_count >= 220 THEN 1 ELSE 0)
    + (IF attributes["regulatory"] /\ attributes["marketplace"] THEN 1 ELSE 0)

ComplexityScore(word_count, attributes) ==
  1 + SumWeights({a \in DOMAIN attributes : attributes[a]})
    + (IF word_count > 140 THEN 1 ELSE 0)
    + (IF word_count > 220 THEN 1 ELSE 0)
    + (IF attributes["regulatory"] /\ attributes["marketplace"] THEN 1 ELSE 0)

assess_complexity(text, attributes) ==
  LET score == ComplexityScore(WordCount(text), attributes)
  IN IF score >= 6 THEN "complex" ELSE IF score >= 3 THEN "standard" ELSE "lean"

\* tokens of a category name: domain.replace("&", ",").split(","), stripped, lowered
RECURSIVE SplitOn(_, _)
SplitOn(s, sep) ==
  LET hits == {i \in 1..Len(s) : Char(s, i) = sep}
  IN IF hits = {} THEN << s >>
     ELSE << SubSeq(s, 1, SetMin(hits) - 1) >>
            \o SplitOn(SubSeq(s, SetMin(hits) + 1, Len(s)), sep)

DomainTokens(domain) ==
  LET parts == SplitOn(ReplaceChar(domain, "&", ","), ",")
  IN {Lower(Strip(parts[i])) : i \in 1..Len(parts)}

\* infer_domain falling back to the first category it scans.
infer_domain_first_category(text) ==
  LET lowered == Lower(text)
      hits == {i \in 1..Len(DOMAIN_ORDER) : ContainsAny(lowered, DomainTokens(DOMAIN_ORDER[i]))}
  IN IF hits # {} THEN DOMAIN_ORDER[SetMin(hits)] ELSE DOMAIN_ORDER[1]

\* infer_domain returning the category name as it compared it (lowercased).
infer_domain_lowered(text) ==
  LET lowered == Lower(text)
      hits == {i \in 1..Len(DOMAIN_ORDER) : ContainsAny(lowered, DomainTokens(DOMAIN_ORDER[i]))}
  IN IF hits # {} THEN Lower(DOMAIN_ORDER[SetMin(hits)]) ELSE "Technology & Innovation"

infer_domain(text) ==
  LET lowered == Lower(text)
      hits == {i \in 1..Len(DOMAIN_ORDER) : ContainsAny(lowered, DomainTokens(DOMAIN_ORDER[i]))}
  IN IF hits # {} THEN DOMAIN_ORDER[SetMin(hits)] ELSE "Technology & Innovation"

\* audience_map of infer_audience, in insertion order.
AUDIENCE_MAP ==
  << << "founder", "Founders and product leaders" >>,
     << "startup", "Founders and product leaders" >>,
     << "entrepreneur", "Founders and product leaders" >>,
     << "operations", "Operations and strategy teams" >>,
     << "strategy", "Operations and strategy teams" >>,
     << "pm", "Product managers and discovery leads" >>,
     << "enterprise", "Enterprise innovation teams" >>,
     << "developer", "Developers and technical platform teams" >>,
     << "engineer", "Developers and technical platform teams" >>,
     << "marketing", "Growth and marketing leadership" >>,
     << "growth", "Growth and marketing leadership" >>,
     << "customer", "Customer success and revenue leaders" >>,
     << "cs", "Customer success and revenue leaders" >>,
     << "education", "Learning and enablement leaders" >>,
     << "sustain", "Sustainability and impact leaders" >> >>

infer_audience(text) ==
  LET lowered == Lower(text)
      hits == {i \in 1..Len(AUDIENCE_MAP) : Contains(lowered, AUDIENCE_MAP[i][1])}
  IN IF hits # {} THEN AUDIENCE_MAP[SetMin(hits)][2]
     ELSE IF Contains(lowered, "consumer") THEN "Design-forward consumers"
     ELSE "Visionary product builders"

\* base list plus the conditional appends, cut to six entries.
craft_value_props(domain, audience) ==
  LET category == resolve_category(domain)
      base == << "Aligns multi-disciplinary teams around a shared product narrative",
                 "Transforms fuzzy concepts into execution-ready roadmaps",
                 "Surfaces market-ready differentiation in every deliverable" >>
      opt(cond, item) == IF cond THEN << item >> ELSE << >>
      all == base
        \o opt(category = "Healthcare", "Encodes compliance and patient safety considerations by default")
        \o opt(category = "Finance", "Highlights traceability and risk controls for regulated launch")
        \o opt(category = "Commerce", "Optimises conversion levers across the buying journey")
        \o opt(category = "Developer", "Provides deep technical architecture and integration playbooks")
        \o opt(category = "Marketing", "Maps campaigns to data-backed growth experiments")
        \o opt(category = "Sustainability", "Connects impact measurement to product delivery choices")
        \o opt(Contains(audience, "Enterprise"), "Supports governance workflows and executive-ready reporting")
  IN SubSeq(all, 1, IF Len(all) < 6 THEN Len(all) ELSE 6)

SUCCESS_METRICS ==
  [ d \in {DOMAIN_ORDER[i] : i \in 1..(Len(DOMAIN_ORDER) - 1)} |->
      CASE d = "Healthcare & Wellness" ->
             << "Clinical validation achieved for top three use-cases",
                "HIPAA-aligned data handling sign-off" >>
        [] d = "Finance & Fintech" ->
             << "Regulatory review with compliance team completed",
                "Pilot customers reach 20% workflow automation savings" >>
        [] d = "Education & Learning" ->
             << "Learner engagement score above 75 NPS in pilot",
                "Curriculum iteration cycle under two weeks" >>
        [] d = "Commerce & Retail" ->
             << "Average order value uplift by 15% in beta cohort",
                "Customer acquisition cost payback within three months" >>
        [] d = "Productivity & Collaboration" ->
             << "Time-to-decision reduced by 30% across teams",
                "Weekly active usage above 65% of invited members" >>
        [] d = "Customer Experience" ->
             << "CSAT improvement of 10 points post-launch",
                "First-response automation covering 40% of tickets" >>
        [] d = "Developer Tools" ->
             << "Time-to-first-API-call under 5 minutes",
                "95%+ reliability across key endpoints" >>
        [] d = "Marketing & Growth" ->
             << "Pipeline contribution up 25%",
                "Test velocity doubles without infrastructure debt" >>
        [] d = "Sustainability & Climate" ->
             << "Verified carbon reduction milestone",
                "Supply chain transparency index uplift" >>
        [] d = "Manufacturing & Industry" ->
             << "Downtime reduced by 20% in pilot facilities",
                "Yield and throughput improvements documented" >> ]

derive_success_metrics(domain) ==
  (IF domain \in DOMAIN SUCCESS_METRICS THEN SUCCESS_METRICS[domain]
   ELSE << "100 design partner sessions completed",
           "Launch readiness scorecard signed off by leadership" >>)
    \o << "Founders unlock clear investor-ready storytelling" >>

\* ------------------------------------------------------------------------
\* agents/agent_utils.py: the template catalog
\* ------------------------------------------------------------------------

\* BUSINESS_TEMPLATES (agent_utils.py:128-415), one record per category key.
BUSINESS_TEMPLATES ==
  [ Healthcare |->
    [ model |-> "Compliance-first SaaS with expert enablement",
      pricing |-> "Pilot-based pricing tied to clinical outcomes and scale",
      revenue |-> <<
        "Clinical innovation subscription for care teams",
        "Implementation & interoperability services",
        "Outcome analytics add-ons for administrators" >>,
      gtm |-> "Co-create with {audience} and hospital innovation programs, spotlighting measurable patient impact in the {domain} space.",
      partners |-> <<
        "Hospital innovation labs",
        "EHR / HL7 integration specialists",
        "Clinical research networks" >>,
      key_metrics |-> <<
        "Patient outcome uplift after pilot",
        "Compliance audit pass rate",
        "Care team activation within 60 days" >>,
      enablement |-> <<
        "Clinical validation briefs",
        "Security & compliance FAQ",
        "ROI calculator tailored to administrators" >>,
      expansion |-> "Expand into adjacent care pathways once regulatory approvals are secured." ],
    Finance |->
    [ model |-> "Risk-aware SaaS with premium analytics services",
      pricing |-> "Tiered pricing aligned to assets under management and automation throughput",
      revenue |-> <<
        "Core compliance & automation subscription",
        "Premium risk analytics dashboards",
        "Advisory integrations and onboarding services" >>,
      gtm |-> "Leverage {audience} relationships and fintech sandboxes, emphasising trust, controls, and measurable ROI in {domain}.",
      partners |-> <<
        "Fintech accelerators & regulatory sandboxes",
        "Core banking and payment processors",
        "Audit and compliance consultancies" >>,
      key_metrics |-> <<
        "Time-to-compliance reduction",
        "Automation-driven cost savings",
        "Portfolio coverage within 90 days" >>,
      enablement |-> <<
        "Regulator-ready security brief",
        "Value justification deck with benchmarks",
        "Integration playbooks for core systems" >>,
      expansion |-> "Layer on adjacent risk products once trust is established with early adopters." ],
    Education |->
    [ model |-> "Learning innovation platform with cohort services",
      pricing |-> "Per-program licensing with learner volume accelerators",
      revenue |-> <<
        "Institutional subscription",
        "Curriculum design & accreditation services",
        "Learning analytics premium module" >>,
      gtm |-> "Activate {audience} champions within universities and bootcamps, pairing thought leadership with credentialed pilots across {domain}.",
      partners |-> <<
        "Edtech accelerators",
        "Curriculum design experts",
        "Learning management vendors" >>,
      key_metrics |-> <<
        "Learner engagement score",
        "Time-to-curriculum refresh",
        "Placement or certification uplift" >>,
      enablement |-> <<
        "Instructional design case studies",
        "Learner journey storyboard",
        "Funding & grants negotiation toolkit" >>,
      expansion |-> "Extend to corporate enablement and lifelong learning marketplaces once initial programs excel." ],
    Commerce |->
    [ model |-> "Experience-led commerce platform with monetised insights",
      pricing |-> "GMV-linked SaaS with performance-based boosters",
      revenue |-> <<
        "Core storefront intelligence subscription",
        "Conversion-optimisation services",
        "Data monetisation via benchmarks" >>,
      gtm |-> "Target {audience} within high-growth brands, co-market with ecosystem agencies, and prove conversion lift across {domain} segments.",
      partners |-> <<
        "E-commerce agencies",
        "Logistics & fulfilment networks",
        "Payment providers" >>,
      key_metrics |-> <<
        "Average order value lift",
        "Checkout conversion increase",
        "Customer lifetime value expansion" >>,
      enablement |-> <<
        "Merchandising playbook",
        "Experiment roadmap template",
        "Executive dashboard mockups" >>,
      expansion |-> "Scale into new verticals via channel partnerships and white-label intelligence." ],
    Productivity |->
    [ model |-> "Workflow orchestration platform with analytics add-ons",
      pricing |-> "Seat-based pricing with outcome accelerators",
      revenue |-> <<
        "Core workspace subscription",
        "Automation marketplace",
        "Insights & governance module" >>,
      gtm |-> "Launch with {audience} inside product-led organisations, emphasising measurable cross-team velocity in the {domain} arena.",
      partners |-> <<
        "Product-led growth communities",
        "Product ops consultancies",
        "Integration partners (Slack, Atlassian)" >>,
      key_metrics |-> <<
        "Workflow completion velocity",
        "Cross-team alignment score",
        "Automation adoption within 30 days" >>,
      enablement |-> <<
        "Change management toolkit",
        "Operational maturity benchmark",
        "Executive summary narrative" >>,
      expansion |-> "Expand into adjacent departments once flagship workspace metrics are achieved." ],
    Customer |->
    [ model |-> "Customer intelligence hub with service automation",
      pricing |-> "Tiered pricing aligned to customer volume and SLAs",
      revenue |-> <<
        "Insight subscription",
        "Service automation add-ons",
        "Voice of customer analytics" >>,
      gtm |-> "Equip {audience} with proof of CSAT gains and time-to-resolution improvements within {domain} teams.",
      partners |-> <<
        "CX consultancies",
        "CRM vendors",
        "Support community programs" >>,
      key_metrics |-> <<
        "CSAT / NPS uplift",
        "First-response automation coverage",
        "Retention increase across segments" >>,
      enablement |-> <<
        "Executive listening tour agenda",
        "Customer journey storyboard",
        "Automation ROI worksheet" >>,
      expansion |-> "Layer in revenue enablement offerings once support motion proves value." ],
    Developer |->
    [ model |-> "Usage-based API platform with collaboration seats",
      pricing |-> "Pay-as-you-go API meters plus enterprise support plans",
      revenue |-> <<
        "Core API consumption",
        "Premium orchestration add-ons",
        "Enterprise success engineering" >>,
      gtm |-> "Drive adoption through {audience}, open-source showcases, and deep integration tutorials tailored to {domain} builders.",
      partners |-> <<
        "Developer advocacy communities",
        "Cloud marketplaces",
        "Systems integrators" >>,
      key_metrics |-> <<
        "Active developers",
        "Time-to-first-integration",
        "Production usage retention" >>,
      enablement |-> <<
        "Reference architecture kits",
        "Postman / SDK bundles",
        "Proof-of-concept accelerator scripts" >>,
      expansion |-> "Grow into ecosystem marketplaces and private deployments as enterprise demand matures." ],
    Marketing |->
    [ model |-> "Campaign intelligence platform with experiment services",
      pricing |-> "Channel-based tiering with performance bonuses",
      revenue |-> <<
        "Growth intelligence subscription",
        "Managed experiment services",
        "Attribution analytics add-on" >>,
      gtm |-> "Collaborate with {audience} to launch lighthouse growth experiments and publish benchmark reports across {domain}.",
      partners |-> <<
        "Growth agencies",
        "Ad platforms",
        "Influencer networks" >>,
      key_metrics |-> <<
        "Cost per acquisition improvement",
        "Campaign experiment velocity",
        "Pipeline contribution" >>,
      enablement |-> <<
        "Campaign hypothesis library",
        "Executive revenue alignment narrative",
        "Attribution modelling toolkit" >>,
      expansion |-> "Introduce ecosystem marketplaces and co-marketing alliances after initial channel mastery." ],
    Sustainability |->
    [ model |-> "Impact data platform with advisory overlays",
      pricing |-> "Subscription indexed to emissions footprint and reporting scope",
      revenue |-> <<
        "ESG reporting subscription",
        "Carbon reduction advisory",
        "Marketplace of certified partners" >>,
      gtm |-> "Activate {audience} and sustainability leads, uniting regulatory compliance with innovation narratives in {domain}.",
      partners |-> <<
        "Climate tech alliances",
        "Regulatory consultants",
        "Data providers (emissions, offsets)" >>,
      key_metrics |-> <<
        "Emission reduction verified",
        "Reporting cycle compression",
        "Partner program expansion" >>,
      enablement |-> <<
        "ESG storytelling kit",
        "Regulatory mapping template",
        "Executive sustainability heatmap" >>,
      expansion |-> "Scale into supply chain transparency once carbon accounting flywheel spins." ],
    Industry |->
    [ model |-> "Operational intelligence platform with edge services",
      pricing |-> "Footprint-based pricing with production outcome bonuses",
      revenue |-> <<
        "Factory orchestration subscription",
        "Predictive maintenance services",
        "Supply-chain visibility add-ons" >>,
      gtm |-> "Partner with {audience} and industrial innovation labs to prove downtime reduction across {domain} plants.",
      partners |-> <<
        "Systems integrators",
        "IoT hardware vendors",
        "Manufacturing associations" >>,
      key_metrics |-> <<
        "Downtime reduction",
        "Yield improvement",
        "Throughput increase" >>,
      enablement |-> <<
        "Operational excellence playbook",
        "Factory data readiness assessment",
        "Change management workshop kit" >>,
      expansion |-> "Expand regionally via strategic OEM alliances and reseller channels." ],
    Innovation |->
    [ model |-> "Multi-agent SaaS with advisory overlays",
      pricing |-> "Tiered SaaS plus outcomes-based accelerator programs",
      revenue |-> <<
        "Core multi-agent workspace",
        "Strategic advisory sprints",
        "Data & integration marketplace" >>,
      gtm |-> "Inspire {audience} through founder stories, live blueprint showcases, and community-led launches across {domain}.",
      partners |-> <<
        "Venture studios",
        "Startup communities",
        "Tooling ecosystems" >>,
      key_metrics |-> <<
        "Blueprint completion velocity",
        "Pilot conversion to build",
        "Founder NPS" >>,
      enablement |-> <<
        "Investor storytelling pack",
        "Blueprint KPI dashboard",
        "Launch playbook for co-marketing" >>,
      expansion |-> "Add vertical-specific playbooks once initial cohorts show repeatable wins." ] ]

\* TECH_TEMPLATES (agent_utils.py:417-759), one record per category key.
TECH_TEMPLATES ==
  [ Healthcare |->
    [ architecture |-> "HIPAA-ready service mesh with governed clinical knowledge lake and audit-first workflows",
      stack |-> <<
        "FastAPI microservices",
        "React / Next.js experience layer",
        "FHIR-compatible PostgreSQL + pgvector",
        "Airflow & dbt for governed pipelines",
        "Event bus via Kafka" >>,
      ai |-> <<
        "Retrieval-augmented generation over clinical protocols",
        "Agent triage for risk stratification",
        "Quality guardrails monitoring hallucinations and compliance" >>,
      service |-> <<
        "Identity & consent management",
        "Clinical evidence tagging engine",
        "Blueprint orchestration service" >>,
      data |-> "Govern protected health information via encrypted data lake, lineage tracking, and role-based access.",
      devops |-> <<
        "Terraform IaC with environment blueprints",
        "GitHub Actions -> Argo Rollouts for progressive delivery",
        "Automated compliance checks & audit logging" >>,
      integration |-> <<
        "EHR / EMR platforms",
        "Analytics warehouse (Snowflake / BigQuery)",
        "Customer success tooling" >> ],
    Finance |->
    [ architecture |-> "Zero-trust microservices with streaming risk engine and immutable audit ledger",
      stack |-> <<
        "Python FastAPI or JVM services",
        "React + Ant Design ops console",
        "PostgreSQL + Vitess for ledgering",
        "Kafka Streams for real-time scoring",
        "Lakehouse via Delta or Iceberg" >>,
      ai |-> <<
        "Compliance-aware reasoning agents",
        "Anomaly detection on transactional data",
        "Scenario simulation co-pilots" >>,
      service |-> <<
        "Policy engine & rules studio",
        "Risk dashboard",
        "Partner integration hub" >>,
      data |-> "Encrypted columnar storage with fine-grained entitlements and immutable audit trails.",
      devops |-> <<
        "Terraform & Atlantis workflows",
        "Chaos testing in non-prod",
        "Continuous compliance scanners" >>,
      integration |-> <<
        "Core banking systems",
        "Identity providers",
        "RegTech feeds" >> ],
    Education |->
    [ architecture |-> "Modular learning fabric with adaptive content engine and analytics lake",
      stack |-> <<
        "FastAPI or NestJS services",
        "Next.js / Tailwind front-end",
        "Postgres + pgvector for content",
        "Superset or Metabase analytics",
        "Event streaming via Redpanda" >>,
      ai |-> <<
        "Curriculum summarisation agents",
        "Personalised learning coach",
        "Assessment feedback generator" >>,
      service |-> <<
        "Persona & cohort manager",
        "Content tagging & recommendation",
        "Credentialing & assessment" >>,
      data |-> "Capture learner telemetry into lakehouse with privacy-preserving segmentation.",
      devops |-> <<
        "Terraform + GitHub Actions",
        "Feature flag orchestration",
        "Observability stack (OpenTelemetry)" >>,
      integration |-> <<
        "LMS platforms",
        "Video & conferencing APIs",
        "Student information systems" >> ],
    Commerce |->
    [ architecture |-> "Event-driven commerce core with personalization engine and experimentation layer",
      stack |-> <<
        "Node.js / FastAPI microservices",
        "React storefront & design system",
        "PostgreSQL + Redis for sessions",
        "Segment + Snowflake analytics",
        "Kafka / Pulsar event backbone" >>,
      ai |-> <<
        "Dynamic merchandising agent",
        "Pricing optimiser",
        "Customer journey summariser" >>,
      service |-> <<
        "Catalog enrichment",
        "Experiment management",
        "Marketplace orchestration" >>,
      data |-> "Unify shopper telemetry and transactions within governed lakehouse for omni-channel insights.",
      devops |-> <<
        "Infrastructure as code (Terraform)",
        "Canary deploys via Argo",
        "Synthetic journey monitoring" >>,
      integration |-> <<
        "Payment gateways",
        "Logistics APIs",
        "Marketing automation" >> ],
    Productivity |->
    [ architecture |-> "Composable workspace fabric with knowledge graph and automation bus",
      stack |-> <<
        "Python FastAPI",
        "React + Chakra UI",
        "PostgreSQL + Neo4j knowledge graph",
        "Celery / Dramatiq workers",
        "ClickHouse analytics" >>,
      ai |-> <<
        "Workflow summarisation agents",
        "Meeting synthesis",
        "Decision memory assistant" >>,
      service |-> <<
        "Workspace orchestration",
        "Playbook library",
        "Integration controller" >>,
      data |-> "Capture work artefacts in searchable embeddings with strict workspace boundaries.",
      devops |-> <<
        "Terraform + GitHub Actions",
        "Service level objectives with SLO dashboards",
        "Feature toggle guardrails" >>,
      integration |-> <<
        "Slack / Teams",
        "Project management suites",
        "Identity providers" >> ],
    Customer |->
    [ architecture |-> "Unified customer intelligence lakehouse with service automation rail",
      stack |-> <<
        "Python / Go services",
        "React + Storybook",
        "Postgres + ClickHouse",
        "Airbyte ingestion",
        "Snowflake warehouse" >>,
      ai |-> <<
        "Sentiment clustering agents",
        "Playbook recommendation",
        "Auto-generated QBR narratives" >>,
      service |-> <<
        "Signal ingestion",
        "Success planning",
        "Feedback triage" >>,
      data |-> "Blend CS data sources with customer journey signals into governed warehouse.",
      devops |-> <<
        "IaC + policy-as-code",
        "Golden signal monitoring",
        "Incident simulation" >>,
      integration |-> <<
        "CRM suites",
        "Support platforms",
        "Product analytics" >> ],
    Developer |->
    [ architecture |-> "API-first control plane with event mesh and developer experience portal",
      stack |-> <<
        "Go / Rust core services",
        "GraphQL gateway",
        "PostgreSQL + Redis",
        "OpenTelemetry everywhere",
        "Vectordb (Weaviate / Pinecone)" >>,
      ai |-> <<
        "Code assistant for integrations",
        "Runbook summariser",
        "API anomaly detection" >>,
      service |-> <<
        "Usage analytics",
        "Credential & secret vault",
        "Extension marketplace" >>,
      data |-> "Track usage telemetry and error budgets with redaction for customer data.",
      devops |-> <<
        "GitOps with Argo",
        "Progressive delivery with Flagger",
        "CLIs for multi-tenant ops" >>,
      integration |-> <<
        "Cloud marketplaces",
        "CI/CD tooling",
        "Developer analytics" >> ],
    Marketing |->
    [ architecture |-> "Channel intelligence graph with experimentation and attribution layers",
      stack |-> <<
        "Python services",
        "Next.js marketing workbench",
        "PostgreSQL + DuckDB",
        "Airflow / dbt",
        "Reverse ETL (Hightouch)" >>,
      ai |-> <<
        "Campaign narrative generator",
        "Creative brief assistant",
        "Attribution explainer agent" >>,
      service |-> <<
        "Segment harmoniser",
        "Experiment launcher",
        "Insights studio" >>,
      data |-> "Blend paid, owned, and earned channel data with privacy-aware segmentation.",
      devops |-> <<
        "IaC with Terraform",
        "Data quality monitors",
        "Automated backtesting" >>,
      integration |-> <<
        "Ad platforms",
        "CRM & marketing automation",
        "Revenue systems" >> ],
    Sustainability |->
    [ architecture |-> "Impact data backbone with scenario modelling engine",
      stack |-> <<
        "Python services",
        "React + D3 visual stories",
        "PostgreSQL + Timescale",
        "Airflow sustainability pipelines",
        "Vector store for ESG policies" >>,
      ai |-> <<
        "Carbon hotspot detection agent",
        "ESG report drafter",
        "Supplier classification assistant" >>,
      service |-> <<
        "Emission data ingestion",
        "Target planning studio",
        "Partner marketplace" >>,
      data |-> "Aggregate scope 1-3 data sources with provenance tracking and assurance.",
      devops |-> <<
        "Terraform + Vault",
        "Automated assurance tests",
        "Forecast monitoring" >>,
      integration |-> <<
        "ERP systems",
        "Supply chain data feeds",
        "Offset registries" >> ],
    Industry |->
    [ architecture |-> "Edge-aware industrial platform with digital twin and predictive loop",
      stack |-> <<
        "Go / Rust edge services",
        "FastAPI control plane",
        "Time-series DB (Influx / Timescale)",
        "Event backbone via Kafka",
        "Lakehouse on Delta" >>,
      ai |-> <<
        "Predictive maintenance agents",
        "Anomaly root-cause analysis",
        "Production optimisation co-pilot" >>,
      service |-> <<
        "Asset registry",
        "Work order automation",
        "Supplier orchestration" >>,
      data |-> "Sync edge telemetry into secure lakehouse with lineage and replay.",
      devops |-> <<
        "Infrastructure automation",
        "Blue/green for edge updates",
        "Site reliability playbooks" >>,
      integration |-> <<
        "MES/SCADA",
        "ERP & PLM",
        "Quality management systems" >> ],
    Innovation |->
    [ architecture |-> "Multi-agent orchestration fabric with shared knowledge graph and event bus",
      stack |-> <<
        "FastAPI orchestrators",
        "React + Radix UI",
        "PostgreSQL + pgvector",
        "LangChain or LlamaIndex",
        "Temporal for workflow choreography" >>,
      ai |-> <<
        "Persona-specific ideation agents",
        "Blueprint synthesiser",
        "Risk/assumption tracker" >>,
      service |-> <<
        "Idea ingestion",
        "Narrative engine",
        "Metrics cockpit" >>,
      data |-> "Maintain living product knowledge graph with traceable rationale and embeddings.",
      devops |-> <<
        "IaC with Terraform",
        "Feature flags + experimentation",
        "Observability (OpenTelemetry, Grafana)" >>,
      integration |-> <<
        "Product analytics",
        "CRM & pipeline",
        "Documentation hubs" >> ] ]

\* DESIGN_TEMPLATES (agent_utils.py:761-993), one record per category key.
DESIGN_TEMPLATES ==
  [ Healthcare |->
    [ principles |-> <<
        "Empathetic clarity with clinician-first language",
        "Trust signals via audit trails and explainability",
        "Assistive automation that keeps humans in control" >>,
      key_screens |-> <<
        "Clinical opportunity map",
        "Compliance command centre",
        "Patient impact dashboard",
        "Care pathway timeline" >>,
      interaction |-> <<
        "Guided playbooks with safety checkpoints",
        "Evidence trace overlays",
        "Scenario comparison mode" >>,
      voice |-> "Reassuring, expert, compliance-aware",
      visual |-> "Calming neutrals with Akcero blue accents and data-rich panels",
      tone |-> "Evidence-led storytelling that balances innovation with safety" ],
    Finance |->
    [ principles |-> <<
        "Control and auditability",
        "Scenario thinking at a glance",
        "Signal prioritisation for analysts" >>,
      key_screens |-> <<
        "Risk cockpit",
        "Regulatory action log",
        "Portfolio automation canvas",
        "Executive reporting suite" >>,
      interaction |-> <<
        "Explainable AI drilldowns",
        "Playbook builder",
        "Threshold alert designer" >>,
      voice |-> "Trusted, precise, and accountability-driven",
      visual |-> "High-contrast dashboards with precise typography and data density",
      tone |-> "Commanding confidence while highlighting safeguards" ],
    Education |->
    [ principles |-> <<
        "Guided creation with playful clarity",
        "Community feedback loops",
        "Celebration of learner progress" >>,
      key_screens |-> <<
        "Curriculum atelier",
        "Learner journey mapper",
        "Engagement analytics",
        "Credential showcase" >>,
      interaction |-> <<
        "Commentary threads",
        "Interactive storyboards",
        "Adaptive preview" >>,
      voice |-> "Encouraging, human, future-positive",
      visual |-> "Warm neutrals with energetic accent gradients",
      tone |-> "Inspiring craftsmanship with practical scaffolding" ],
    Commerce |->
    [ principles |-> <<
        "Conversion clarity",
        "Revenue storytelling",
        "Fast iteration loops" >>,
      key_screens |-> <<
        "Revenue command centre",
        "Experiment tracker",
        "Marketplace health",
        "Customer journey heatmap" >>,
      interaction |-> <<
        "Scenario toggles",
        "Smart playbook suggestions",
        "Live funnel overlays" >>,
      voice |-> "Energetic, growth-minded, and data-backed",
      visual |-> "Bold hero stats with modular cards and high-contrast calls-to-action",
      tone |-> "Outcome-obsessed yet grounded in feasibility" ],
    Productivity |->
    [ principles |-> <<
        "Narrative alignment",
        "Transparency of agent decisions",
        "Momentum cues" >>,
      key_screens |-> <<
        "Unified mission brief",
        "Dependency radar",
        "AI assistant timeline",
        "Insights backlog" >>,
      interaction |-> <<
        "Command palette",
        "Timeline scrubber",
        "Focus mode" >>,
      voice |-> "Strategic, energising, partner-like",
      visual |-> "Layered cards, subtle glassmorphism, and rich whitespace",
      tone |-> "Confident acceleration without overwhelm" ],
    Customer |->
    [ principles |-> <<
        "Empathy showcased by design",
        "Signal-to-action mapping",
        "Moments of celebration for wins" >>,
      key_screens |-> <<
        "Customer health overview",
        "Journey timeline",
        "Executive briefing suite",
        "Renewal planner" >>,
      interaction |-> <<
        "Success pulse checks",
        "Playbook branching",
        "Collaboration co-editing" >>,
      voice |-> "Supportive, pragmatic, north-star oriented",
      visual |-> "Soft gradients with crisp data cards and personable iconography",
      tone |-> "Empathetic authority that rallies teams" ],
    Developer |->
    [ principles |-> <<
        "Make power visible",
        "Surfacing telemetry without noise",
        "Shortcut-first execution" >>,
      key_screens |-> <<
        "Service topology",
        "Usage analytics",
        "API playground",
        "Incident retros" >>,
      interaction |-> <<
        "Command palette + CLI parity",
        "Split-pane diff view",
        "Automations panel" >>,
      voice |-> "Direct, expert, builder-to-builder",
      visual |-> "Dark theme with neon accents and monospace highlights",
      tone |-> "Matter-of-fact, unlocking mastery and velocity" ],
    Marketing |->
    [ principles |-> <<
        "Narrative framing of data",
        "Experiment storytelling",
        "Collaboration rituals" >>,
      key_screens |-> <<
        "Campaign studio",
        "Audience intelligence",
        "Budget orchestration",
        "Launch calendar" >>,
      interaction |-> <<
        "What-if toggles",
        "Creative inspiration wall",
        "Auto-generated executive briefs" >>,
      voice |-> "Bold, visionary, momentum-building",
      visual |-> "Vibrant gradient washes with crisp typography and video-friendly layouts",
      tone |-> "Ambitious with proof at every step" ],
    Sustainability |->
    [ principles |-> <<
        "Transparency",
        "Collaborative accountability",
        "Hopeful pragmatism" >>,
      key_screens |-> <<
        "Impact dashboard",
        "Target tracking",
        "Supplier alignment space",
        "Investor-ready narrative" >>,
      interaction |-> <<
        "Scenario sliders",
        "Compliance checklists",
        "Goal visualisations" >>,
      voice |-> "Purposeful, optimistic, evidence-rich",
      visual |-> "Earthy neutrals with crisp data overlays and optimism cues",
      tone |-> "Inspiring urgency backed by action" ],
    Industry |->
    [ principles |-> <<
        "Operational clarity",
        "Proactive alerts",
        "Human + machine partnership" >>,
      key_screens |-> <<
        "Factory digital twin",
        "Maintenance planner",
        "Supply chain monitor",
        "Executive value cockpit" >>,
      interaction |-> <<
        "Drill-through timelines",
        "Command centre quick actions",
        "Augmented reality overlays (roadmap)" >>,
      voice |-> "Assured, precision-focused, efficiency obsessed",
      visual |-> "High-contrast industrial UI with data-rich modules",
      tone |-> "Operationally authoritative with clear ROI" ],
    Innovation |->
    [ principles |-> <<
        "Story-driven intelligence",
        "Actionable transparency",
        "Momentum you can feel" >>,
      key_screens |-> <<
        "Idea intake cockpit",
        "Opportunity canvas",
        "Blueprint narrative board",
        "Roadmap scenario explorer" >>,
      interaction |-> <<
        "Multiplayer editing",
        "Timeline scrubbing",
        "Agent rationale reveals" >>,
      voice |-> "Visionary, expert, energising",
      visual |-> "Luminous blues with clean glassmorphism and statement typography",
      tone |-> "Confident storytelling that rallies investors and teams" ] ]

\* MARKET_TEMPLATES (agent_utils.py:995-1315), one record per category key.
MARKET_TEMPLATES ==
  [ Healthcare |->
    [ segment |-> "Healthcare innovators seeking compliant AI copilots for faster validation",
      competitors |-> <<
        "Notable Health",
        "Abridge",
        "Kahun" >>,
      differentiators |-> <<
        "Multi-agent workflow tuned for clinical governance",
        "Explainable narratives linked to compliance artifacts",
        "Out-of-the-box audit telemetry" >>,
      personas |-> <<
        "Chief Innovation Officer",
        "Clinical transformation lead",
        "Digital health startup founder" >>,
      channels |-> <<
        "Healthcare innovation forums",
        "Regulatory roundtables",
        "Clinical podcast circuit" >>,
      challenges |-> <<
        "Procurement scrutiny around data residency",
        "Proof of clinical efficacy required" >>,
      positioning |-> "Akcero turns fragmented clinical ideas into rigorously governed product blueprints in days, not quarters.",
      launch |-> "Secure lighthouse health systems, publish de-identified case outcomes, and host a compliance-focused launch webinar." ],
    Finance |->
    [ segment |-> "Fintech and financial ops teams pursuing supervised AI automation",
      competitors |-> <<
        "Veryfi",
        "OpenRisk",
        "Canoe Intelligence" >>,
      differentiators |-> <<
        "Continuous compliance baked into agent workflows",
        "Decision trails for auditors",
        "Real-time scenario modelling" >>,
      personas |-> <<
        "Head of Operations",
        "Chief Risk Officer",
        "Fintech founder" >>,
      channels |-> <<
        "Fintech accelerators",
        "RegTech conferences",
        "LinkedIn thought leadership series" >>,
      challenges |-> <<
        "Regulatory approval timelines",
        "Risk-averse buyers demand references" >>,
      positioning |-> "Akcero delivers supervised AI blueprints that pass risk and compliance checks without slowing product velocity.",
      launch |-> "Co-host sandbox demos with regulators and publish risk-case tear-downs showing measurable ROI." ],
    Education |->
    [ segment |-> "Edtech builders modernising curriculum and learner engagement with AI",
      competitors |-> <<
        "Instructure AI",
        "Knewton",
        "Sana" >>,
      differentiators |-> <<
        "Human-first storytelling for instructors",
        "Agent collaboration tuned for learning design",
        "Embedded metrics for outcomes and equity" >>,
      personas |-> <<
        "Academic innovation dean",
        "Program director",
        "Learning design lead" >>,
      channels |-> <<
        "Edtech communities",
        "Teacher influencer partnerships",
        "Conference workshops" >>,
      challenges |-> <<
        "Budget cycles and accreditation",
        "Need to prove learner impact quickly" >>,
      positioning |-> "Akcero helps educators ship future-proof programs with agents that co-design, validate, and measure learning impact.",
      launch |-> "Curate design partner cohort across universities and publish before/after learner stories." ],
    Commerce |->
    [ segment |-> "Commerce operators chasing conversion breakthroughs with AI-led planning",
      competitors |-> <<
        "Triple Whale",
        "Malomo",
        "Shopify Sidekick" >>,
      differentiators |-> <<
        "Multi-agent GTM orchestrations",
        "Narratives linking conversion gains to roadmap",
        "Real-time marketplace telemetry" >>,
      personas |-> <<
        "VP Growth",
        "Head of Merchandising",
        "Founder / operator" >>,
      channels |-> <<
        "DTC communities",
        "Performance marketing podcasts",
        "Product Hunt launch" >>,
      challenges |-> <<
        "Crowded tooling category",
        "Proof required on conversion lift" >>,
      positioning |-> "Akcero transforms raw commerce ideas into conversion-maximising blueprints orchestrated by specialised agents.",
      launch |-> "Partner with 3 flagship brands, televise experiment wins, and run joint launch live streams." ],
    Productivity |->
    [ segment |-> "Product & strategy teams aligning cross-functional delivery",
      competitors |-> <<
        "Productboard",
        "Aha!",
        "Notion AI" >>,
      differentiators |-> <<
        "Agent swarm translating narrative to execution",
        "Executive-ready storytelling",
        "Telemetry that links decision to outcome" >>,
      personas |-> <<
        "Head of Product",
        "Strategy lead",
        "Chief of Staff" >>,
      channels |-> <<
        "Product leadership roundtables",
        "Founder communities",
        "Thought leadership newsletter" >>,
      challenges |-> <<
        "Need to reframe beyond classic roadmap tools",
        "Stakeholder trust in AI decisions" >>,
      positioning |-> "Akcero's multi-agent studio makes every product idea investor, exec, and team ready in one collaborative motion.",
      launch |-> "Host live blueprint showcases with design partners and release template library on launch week." ],
    Customer |->
    [ segment |-> "Customer success leaders scaling narrative-driven retention",
      competitors |-> <<
        "Gainsight AI",
        "Catalyst",
        "Vitally" >>,
      differentiators |-> <<
        "Blueprints connecting customer voice to roadmap",
        "Executive-grade narratives auto-generated",
        "Playbooks measured by revenue impact" >>,
      personas |-> <<
        "VP Customer Success",
        "Revenue operations director",
        "CS Ops lead" >>,
      channels |-> <<
        "CS leadership communities",
        "Revenue forums",
        "Webinars with customer heroes" >>,
      challenges |-> <<
        "Proving attribution to revenue",
        "Integration expectations" >>,
      positioning |-> "Akcero turns customer signals into boardroom-ready blueprints that close renewals and expansions faster.",
      launch |-> "Run a lighthouse cohort with CS leaders, publish revenue turnaround stories, and launch on G2/Product Hunt." ],
    Developer |->
    [ segment |-> "Platform and infrastructure leaders building AI-enabled tooling",
      competitors |-> <<
        "Vercel AI",
        "Postman Intelligence",
        "Buildkite Copilot" >>,
      differentiators |-> <<
        "Agentic design tailored for technical buyers",
        "Traceable architecture narratives",
        "CLI and API parity" >>,
      personas |-> <<
        "Head of Platform",
        "Staff engineer",
        "DevRel lead" >>,
      channels |-> <<
        "Open-source launches",
        "Developer conferences",
        "Technical AMAs" >>,
      challenges |-> <<
        "Need to prove reliability",
        "Sophisticated buyer expectations" >>,
      positioning |-> "Akcero augments platform teams with agentic blueprints that ship resilient architecture and developer joy.",
      launch |-> "Release reference architectures, run live coding streams, and create integration challenges with partners." ],
    Marketing |->
    [ segment |-> "Marketing leaders orchestrating AI-powered growth engines",
      competitors |-> <<
        "Jasper",
        "Mutiny",
        "June.so" >>,
      differentiators |-> <<
        "Narrative-first GTM agent collective",
        "Attribution-aware action plans",
        "Investor-ready storytelling" >>,
      personas |-> <<
        "Chief Marketing Officer",
        "Growth director",
        "Brand strategist" >>,
      channels |-> <<
        "CMO circles",
        "Growth podcasts",
        "Thought leadership reports" >>,
      challenges |-> <<
        "Saturation of AI copy tools",
        "Need for proven attribution" >>,
      positioning |-> "Akcero architects growth engines that connect creative ambition to pipeline reality through specialised agents.",
      launch |-> "Release growth benchmark report, run joint webinars with design partners, and seed community challenges." ],
    Sustainability |->
    [ segment |-> "Climate innovators and ESG leaders translating targets into action",
      competitors |-> <<
        "Watershed",
        "Persefoni",
        "Sweep" >>,
      differentiators |-> <<
        "Agent collective linking carbon data to product decisions",
        "Investor-grade reporting narratives",
        "Marketplace for certified partners" >>,
      personas |-> <<
        "Chief Sustainability Officer",
        "Product sustainability lead",
        "Impact entrepreneur" >>,
      channels |-> <<
        "Climate accelerators",
        "ESG analyst forums",
        "Impact investor networks" >>,
      challenges |-> <<
        "Data quality and proof of impact",
        "Evolving regulations globally" >>,
      positioning |-> "Akcero compresses sustainability roadmapping from quarters to weeks with agentic rigor and measurable impact.",
      launch |-> "Publish impact scorecards with design partners and host a climate innovation summit." ],
    Industry |->
    [ segment |-> "Industrial innovators digitising operations with AI co-pilots",
      competitors |-> <<
        "Sight Machine",
        "Augury",
        "GE Predix" >>,
      differentiators |-> <<
        "Agentic orchestration spanning plant to exec",
        "Digital twin storytelling",
        "Operational telemetry fused with product insights" >>,
      personas |-> <<
        "VP Operations",
        "Digital transformation lead",
        "Innovation lab head" >>,
      channels |-> <<
        "Industry consortiums",
        "Manufacturing events",
        "Public-private innovation programs" >>,
      challenges |-> <<
        "Lengthy procurement",
        "Integration with legacy systems" >>,
      positioning |-> "Akcero accelerates industrial transformation with agentic blueprints that tie plant telemetry to board-level narratives.",
      launch |-> "Co-host factory innovation tours and publish ROI benchmarks with early adopters." ],
    Innovation |->
    [ segment |-> "Founders and venture studios moving from concept to conviction",
      competitors |-> <<
        "Notion AI",
        "Gamma",
        "FigJam" >>,
      differentiators |-> <<
        "Six specialised agents collaborating in real-time",
        "Investor-ready executive narrative",
        "Proof loops that quantify traction" >>,
      personas |-> <<
        "Founder",
        "Head of Product",
        "Studio partner" >>,
      channels |-> <<
        "Founder communities",
        "Product Hunt",
        "Venture newsletters" >>,
      challenges |-> <<
        "Signal vs noise in AI tooling",
        "Ensuring outcomes feel proprietary" >>,
      positioning |-> "Akcero makes every founder idea investor, customer, and team-ready through orchestrated AI agents.",
      launch |-> "Host live multi-agent blueprint showcases and publish the Akcero Product Builder playbook." ] ]

\* TIMELINE_NOTES (agent_utils.py:1317-1362), one record per category key.
TIMELINE_NOTES ==
  [ Healthcare |->
    [ milestone |-> "Clinical advisory board validates pilot protocol",
      launch |-> "Coordinate regulatory sign-off and publish patient impact case study" ],
    Finance |->
    [ milestone |-> "Regulatory sandbox approval achieved",
      launch |-> "Risk & compliance go-live checklist completed" ],
    Education |->
    [ milestone |-> "Curriculum accreditation secured",
      launch |-> "Learner showcase event executed" ],
    Commerce |->
    [ milestone |-> "Dual-sided pilot conversion benchmarks hit",
      launch |-> "Public launch paired with flagship brand testimonial" ],
    Productivity |->
    [ milestone |-> "Cross-functional operating rhythm locked",
      launch |-> "Company-wide rollout playbook activated" ],
    Customer |->
    [ milestone |-> "Executive renewal narrative approved",
      launch |-> "Customer advisory board celebrates early wins" ],
    Developer |->
    [ milestone |-> "Public API GA with reliability SLAs",
      launch |-> "Developer advocacy tour launched" ],
    Marketing |->
    [ milestone |-> "Signature growth experiment proves pipeline lift",
      launch |-> "Category narrative published with partner amplification" ],
    Sustainability |->
    [ milestone |-> "Verified carbon reduction report delivered",
      launch |-> "Impact summit with ecosystem partners" ],
    Industry |->
    [ milestone |-> "Predictive maintenance ROI validated",
      launch |-> "Factory leadership alignment summit" ],
    Innovation |->
    [ milestone |-> "Investor-ready blueprint deck signed off",
      launch |-> "Public beta with ambassador cohort" ] ]

\* The template dictionaries above are module-level objects shared by every
\* synthesizer call of every run: the live objects are state.
VARIABLE catalog

\* The catalog as agent_utils.py defines it at import time.
TemplateCatalog ==
  [ BUSINESS_TEMPLATES |-> BUSINESS_TEMPLATES,
    TECH_TEMPLATES |-> TECH_TEMPLATES,
    DESIGN_TEMPLATES |-> DESIGN_TEMPLATES,
    MARKET_TEMPLATES |-> MARKET_TEMPLATES,
    TIMELINE_NOTES |-> TIMELINE_NOTES,
    TIMELINE_WINDOWS |-> TIMELINE_WINDOWS,
    TIMELINE_TOTAL |-> TIMELINE_TOTAL ]

\* ------------------------------------------------------------------------
\* Python repr() of the values the agents interpolate into prompts
\* ------------------------------------------------------------------------

\* The body of repr(str): backslash, control and the enclosing quote escaped.
EscapeFor(s, quote) ==
  Concat([i \in 1..Len(s) |->
    LET c == Char(s, i)
    IN CASE c = "\\" -> "\\\\"
         [] c = "\n" -> "\\n"
         [] c = "\r" -> "\\r"
         [] c = "\t" -> "\\t"
         [] c = quote -> "\\" \o quote
         [] OTHER -> c])

\* repr(str): single quotes, unless the text has a single and no double quote.
ReprStr(s) ==
  IF Contains(s, "'") /\ ~Contains(s, "\"")
    THEN "\"" \o EscapeFor(s, "\"") \o "\""
    ELSE "'" \o EscapeFor(s, "'") \o "'"

\* repr(list of str)
ReprList(items) ==
  "[" \o Join(", ", [i \in 1..Len(items) |-> ReprStr(items[i])]) \o "]"

ReprBool(b) == IF b THEN "True" ELSE "False"

\* repr(dict) from its (key, repr(value)) pairs in insertion order.
ReprDict(pairs) ==
  "{" \o Join(", ", [i \in 1..Len(pairs) |-> ReprStr(pairs[i][1]) \o ": " \o pairs[i][2]]) \o "}"

\* repr of the attribute flags (keys in ATTRIBUTE_KEYWORDS order).
ReprAttributes(attributes) ==
  ReprDict([i \in 1..Len(ATTRIBUTE_ORDER) |->
              << ATTRIBUTE_ORDER[i], ReprBool(attributes[ATTRIBUTE_ORDER[i]]) >>])

\* ------------------------------------------------------------------------
\* core/deps.py: the text-completion client
\* ------------------------------------------------------------------------

\* What client.chat.completions.create does on a call: it returns a message
\* with text, with whitespace-only text or with content None, or it raises.
ProviderReplies == {"text", "blank", "null", "raise"}

\* The message content of a "text" reply (padded: generate strips it).
ProviderText == "  Refined by the provider.\n"

\* client.chat.completions.create(...) followed by
\* response.choices[0].message.content: it raises, or yields the content.
ProviderCall(reply) ==
  [ raised |-> reply = "raise",
    is_none |-> reply = "null",
    content |-> CASE reply = "text" -> ProviderText
                  [] reply = "blank" -> "  \n "
                  [] OTHER -> "" ]

\* The deterministic template output at the end of LLMClient.generate.
FallbackText(prompt) ==
  IF Strip(prompt) # "" THEN Strip(prompt) ELSE "No additional insights available."

\* LLMClient.generate without its try/except: a provider error propagates.
LLMClientGenerateUnguarded(llm, system_prompt, prompt) ==
  IF llm.provider = "openai" /\ llm.client # "None"
    THEN LET call == ProviderCall(llm.client)
         IN IF call.raised THEN [raised |-> TRUE, value |-> ""]
            ELSE [raised |-> FALSE,
                  value |-> Strip(IF call.is_none THEN "" ELSE call.content)]
    ELSE [raised |-> FALSE, value |-> FallbackText(prompt)]

\* LLMClient.generate; the result says whether the call raised, and the text.
LLMClientGenerate(llm, system_prompt, prompt) ==
  IF llm.provider = "openai" /\ llm.client # "None" /\ ~ProviderCall(llm.client).raised
    THEN LET call == ProviderCall(llm.client)
         IN [raised |-> FALSE,
             value |-> Strip(IF call.is_none THEN "" ELSE call.content)]
    ELSE [raised |-> FALSE, value |-> FallbackText(prompt)]

\* DeterministicLLMStub.generate
StubGenerate(system_prompt, prompt) ==
  LET context == IF Strip(prompt) # "" THEN Strip(prompt) ELSE "the provided concept"
      intent == IF system_prompt # "" THEN FirstLine(system_prompt)
                ELSE "General ideation guidance."
  IN [raised |-> FALSE,
      value |-> "System Intent: " \o intent \o "\nInsight: Focus on " \o context \o "."]

\* llm.generate(system_prompt, prompt), dispatched on the client's class.
Generate(llm, system_prompt, prompt) ==
  IF llm.cls = "DeterministicLLMStub" THEN StubGenerate(system_prompt, prompt)
  ELSE LLMClientGenerate(llm, system_prompt, prompt)

\* The text of a completed generate call.
GenerateText(llm, system_prompt, prompt) == Generate(llm, system_prompt, prompt).value

\* getattr(self.llm, "provider", "") != "stub"
UsesProvider(llm) == llm.provider # "stub"

\* get_llm(): the stub, or an OpenAI-backed client.
StubLLM == [cls |-> "DeterministicLLMStub", provider |-> "stub", client |-> "None"]

OpenAILLM(reply) == [cls |-> "LLMClient", provider |-> "openai", client |-> reply]

\* LLMClient(provider="openai", model=...) with its default client=None.
UnconfiguredLLM == [cls |-> "LLMClient", provider |-> "openai", client |-> "None"]

\* ------------------------------------------------------------------------
\* agents/agent_utils.py: template selection and augmentation
\* ------------------------------------------------------------------------

\* TEMPLATES.get(category, TEMPLATES["Innovation"])
TemplateFor(templates, category) ==
  IF category \in DOMAIN templates THEN templates[category] ELSE templates["Innovation"]

\* The items appended by a rule: all of them when its condition holds.
When(cond, items) == IF cond THEN items ELSE << >>

\* template.format(audience=audience, domain=domain)
FormatTemplate(template, audience, domain) ==
  Replace(Replace(template, "{audience}", audience), "{domain}", domain)

\* x or y, for strings
OrElse(x, y) == IF x # "" THEN x ELSE y

\* A business playbook whose pricing ignores the regulatory flag.
get_business_playbook_flat_pricing(domain, audience, attributes, complexity, base_model) ==
  LET template == TemplateFor(catalog.BUSINESS_TEMPLATES, resolve_category(domain))
      model == IF base_model # "" /\ ~Contains(Lower(template.model), Lower(base_model))
                 THEN base_model \o " | " \o template.model
                 ELSE OrElse(base_model, template.model)
      revenue == template.revenue
        \o When(attributes["marketplace"], << "Curated marketplace commissions and vendor sponsorships" >>)
        \o When(attributes["developer"], << "Usage-based API tier with premium tooling bundles" >>)
        \o When(attributes["community"], << "Community membership and certification programs" >>)
      go_to_market == FormatTemplate(template.gtm, audience, Lower(domain))
        \o (IF attributes["marketplace"]
              THEN " Recruit a dual-sided design partner cohort to validate supply-demand resonance."
              ELSE "")
        \o (IF attributes["community"]
              THEN " Launch ambassador-driven community drops and co-creation labs."
              ELSE "")
      enablement == template.enablement
        \o When(attributes["developer"], << "Developer-first documentation and SDK launch kit" >>)
        \o When(attributes["enterprise"], << "Executive risk mitigation narrative" >>)
      pricing_strategy == template.pricing
      key_metrics == template.key_metrics
        \o When(attributes["regulatory"], << "Regulatory milestone velocity" >>)
      partners == template.partners
        \o When(attributes["enterprise"], << "Enterprise enablement consultancies" >>)
  IN [ model |-> model,
       pricing_strategy |-> pricing_strategy,
       revenue_streams |-> Dedupe(revenue),
       go_to_market |-> go_to_market,
       partners |-> Dedupe(partners),
       key_metrics |-> Dedupe(key_metrics),
       sales_enablement |-> Dedupe(enablement),
       expansion_strategy |-> template.expansion,
       complexity_profile |-> Title(complexity) ]

\* A business playbook that leaves the partners to the template.
get_business_playbook_same_partners(domain, audience, attributes, complexity, base_model) ==
  LET template == TemplateFor(catalog.BUSINESS_TEMPLATES, resolve_category(domain))
      model == IF base_model # "" /\ ~Contains(Lower(template.model), Lower(base_model))
                 THEN base_model \o " | " \o template.model
                 ELSE OrElse(base_model, template.model)
      revenue == template.revenue
        \o When(attributes["marketplace"], << "Curated marketplace commissions and vendor sponsorships" >>)
        \o When(attributes["developer"], << "Usage-based API tier with premium tooling bundles" >>)
        \o When(attributes["community"], << "Community membership and certification programs" >>)
      go_to_market == FormatTemplate(template.gtm, audience, Lower(domain))
        \o (IF attributes["marketplace"]
              THEN " Recruit a dual-sided design partner cohort to validate supply-demand resonance."
              ELSE "")
        \o (IF attributes["community"]
              THEN " Launch ambassador-driven community drops and co-creation labs."
              ELSE "")
      enablement == template.enablement
        \o When(attributes["developer"], << "Developer-first documentation and SDK launch kit" >>)
        \o When(attributes["enterprise"], << "Executive risk mitigation narrative" >>)
      pricing_strategy == template.pricing
        \o (IF attributes["regulatory"]
              THEN " Include compliance assurance fees for bespoke reviews."
              ELSE "")
      key_metrics == template.key_metrics
        \o When(attributes["regulatory"], << "Regulatory milestone velocity" >>)
      partners == template.partners
  IN [ model |-> model,
       pricing_strategy |-> pricing_strategy,
       revenue_streams |-> Dedupe(revenue),
       go_to_market |-> go_to_market,
       partners |-> Dedupe(partners),
       key_metrics |-> Dedupe(key_metrics),
       sales_enablement |-> Dedupe(enablement),
       expansion_strategy |-> template.expansion,
       complexity_profile |-> Title(complexity) ]

get_business_playbook(domain, audience, attributes, complexity, base_model) ==
  LET template == TemplateFor(catalog.BUSINESS_TEMPLATES, resolve_category(domain))
      model == IF base_model # "" /\ ~Contains(Lower(template.model), Lower(base_model))
                 THEN base_model \o " | " \o template.model
                 ELSE OrElse(base_model, template.model)
      revenue == template.revenue
        \o When(attributes["marketplace"], << "Curated marketplace commissions and vendor sponsorships" >>)
        \o When(attributes["developer"], << "Usage-based API tier with premium tooling bundles" >>)
        \o When(attributes["community"], << "Community membership and certification programs" >>)
      go_to_market == FormatTemplate(template.gtm, audience, Lower(domain))
        \o (IF attributes["marketplace"]
              THEN " Recruit a dual-sided design partner cohort to validate supply-demand resonance."
              ELSE "")
        \o (IF attributes["community"]
              THEN " Launch ambassador-driven community drops and co-creation labs."
              ELSE "")
      enablement == template.enablement
        \o When(attributes["developer"], << "Developer-first documentation and SDK launch kit" >>)
        \o When(attributes["enterprise"], << "Executive risk mitigation narrative" >>)
      pricing_strategy == template.pricing
        \o (IF attributes["regulatory"]
              THEN " Include compliance assurance fees for bespoke reviews."
              ELSE "")
      key_metrics == template.key_metrics
        \o When(attributes["regulatory"], << "Regulatory milestone velocity" >>)
      partners == template.partners
        \o When(attributes["enterprise"], << "Enterprise enablement consultancies" >>)
  IN [ model |-> model,
       pricing_strategy |-> pricing_strategy,
       revenue_streams |-> Dedupe(revenue),
       go_to_market |-> go_to_market,
       partners |-> Dedupe(partners),
       key_metrics |-> Dedupe(key_metrics),
       sales_enablement |-> Dedupe(enablement),
       expansion_strategy |-> template.expansion,
       complexity_profile |-> Title(complexity) ]

get_tech_playbook(domain, attributes, complexity) ==
  LET template == TemplateFor(catalog.TECH_TEMPLATES, resolve_category(domain))
      stack_hw == template.stack
        \o When(attributes["realtime"], << "Event streaming backbone (Kafka / Pulsar)" >>)
        \o When(attributes["hardware"], << "IoT ingestion via MQTT/Greengrass" >>)
      stack == stack_hw
        \o When(attributes["mobile"]
                  /\ \A i \in 1..Len(stack_hw) : ~Contains(stack_hw[i], "React Native"),
                << "React Native / Expo mobile shell" >>)
      ai_components == template.ai
        \o When(attributes["realtime"], << "Real-time signal prioritisation agent" >>)
        \o When(attributes["marketplace"], << "Marketplace liquidity forecaster" >>)
      service_components == template.service
        \o When(attributes["marketplace"], << "Supply-demand matching engine" >>)
        \o When(attributes["hardware"], << "Edge device fleet manager" >>)
      integration == template.integration
        \o When(attributes["developer"], << "CLI and SDK distribution pipeline" >>)
      devops == template.devops
        \o When(attributes["developer"], << "Developer sandbox orchestration" >>)
        \o When(attributes["enterprise"], << "Policy-as-code with Conftest / OPA" >>)
  IN [ architecture |-> template.architecture,
       stack |-> Dedupe(stack),
       ai_components |-> Dedupe(ai_components),
       service_components |-> Dedupe(service_components),
       data_strategy |-> template.data,
       devops |-> Dedupe(devops),
       integration_points |-> Dedupe(integration),
       resilience_notes |-> Title(complexity) \o " delivery profile with guardrails for "
                              \o Lower(resolve_category(domain)) \o " workloads." ]

get_design_palette(domain, audience, attributes, complexity) ==
  LET template == TemplateFor(catalog.DESIGN_TEMPLATES, resolve_category(domain))
      enterprise_audience == Contains(audience, "Enterprise")
      principles == template.principles
        \o When(attributes["developer"], << "Expose system status for advanced users" >>)
        \o When(attributes["regulatory"], << "Surface compliance guardrails contextually" >>)
      key_screens == template.key_screens
        \o When(attributes["marketplace"], << "Supply & demand orchestration board" >>)
        \o When(attributes["community"], << "Community pulse and ambassador missions" >>)
      interaction_patterns == template.interaction
        \o When(attributes["developer"], << "Keyboard-first power commands" >>)
        \o When(attributes["regulatory"], << "Audit-ready export flows" >>)
  IN [ experience_principles |-> Dedupe(principles),
       key_screens |-> Dedupe(key_screens),
       interaction_patterns |-> Dedupe(interaction_patterns),
       brand_voice |-> IF enterprise_audience
                         THEN template.voice \o " with executive polish"
                         ELSE template.voice,
       visual_language |-> template.visual,
       content_tone |-> IF enterprise_audience
                          THEN template.tone \o ". Always tie outcomes to strategic imperatives."
                          ELSE template.tone,
       design_complexity |-> Title(complexity) ]

get_market_playbook(domain, audience, attributes, complexity) ==
  LET template == TemplateFor(catalog.MARKET_TEMPLATES, resolve_category(domain))
      differentiators == template.differentiators
        \o When(attributes["marketplace"], << "Orchestrates dual-sided market dynamics with agent intelligence" >>)
        \o When(attributes["regulatory"], << "Compliance telemetry wired into every blueprint" >>)
      challenges == template.challenges
        \o When(attributes["marketplace"], << "Need to balance supply and demand narratives early" >>)
      channels == template.channels
        \o When(attributes["community"], << "Community-led roundtables and ambassador streams" >>)
        \o When(attributes["developer"], << "Open-source and developer relations campaigns" >>)
      personas == template.personas
        \o When(attributes["developer"], << "Lead platform engineer" >>)
  IN [ segment |-> template.segment,
       competitors |-> Dedupe(template.competitors),
       differentiators |-> Dedupe(differentiators),
       personas |-> Dedupe(personas),
       marketing_channels |-> Dedupe(channels),
       market_challenges |-> Dedupe(challenges),
       launch_strategy |-> template.launch,
       positioning_statement |-> template.positioning,
       go_to_market_intent |-> Title(complexity) ]

PHASE_NAMES ==
  << "Discovery & Insight Sprint", "Experience Blueprinting", "MVP Build & Instrumentation",
     "Pilot & Iteration Loop", "Launch & Scale Enablement" >>

PHASE_OWNERS ==
  << "Product discovery lead", "Design + research squad", "Engineering pod",
     "Customer success & product marketing", "Founding leadership & revenue ops" >>

BASE_MILESTONES ==
  << "Narrative blueprint approved by executive sponsor",
     "Pilot cohort signed with clear success metrics",
     "AI reliability benchmarks achieved (>95% consistency)",
     "Public launch with quantified customer stories" >>

\* "; ..." when the flag is set, else nothing
Suffix(cond, text) == IF cond THEN text ELSE ""

get_timeline_blueprint(domain, attributes, complexity) ==
  LET windows == catalog.TIMELINE_WINDOWS[complexity]
      domain_lower == Lower(domain)
      reg == attributes["regulatory"]
      mkt == attributes["marketplace"]
      hw == attributes["hardware"]
      dev == attributes["developer"]
      base_focus ==
        << "Immerse with " \o domain_lower \o " experts, surface pains, and quantify opportunity"
             \o Suffix(reg, "; capture compliance constraints and stakeholders"),
           "Design signature " \o domain_lower \o " experiences and validation flows"
             \o Suffix(mkt, "; map supply-demand personas and incentives")
             \o Suffix(hw, "; align hardware/IoT roadmap"),
           "Build core services, harden data pipelines, and wire observability"
             \o Suffix(reg, "; embed audit logging & access controls")
             \o Suffix(hw, "; integrate edge device telemetry")
             \o Suffix(dev, "; expose APIs and CLI early"),
           "Run closed pilots, harvest ROI metrics, and iterate narrative + pricing"
             \o Suffix(mkt, "; balance both sides of the marketplace"),
           "Launch publicly, operationalise GTM motions, and ready scale infrastructure"
             \o Suffix(dev, "; launch developer advocacy runway") >>
      base_exit ==
        << "Validated " \o domain_lower \o " opportunity map and success metrics",
           "Experience prototypes tested with priority personas",
           "Production-ready MVP with telemetry + governance"
             \o Suffix(reg, " with compliance review sign-off"),
           "Pilot cohort delivering quantified wins"
             \o Suffix(mkt, " with dual-sided retention signals"),
           "Launch scorecard and next-wave backlog approved" >>
      notes == TemplateFor(catalog.TIMELINE_NOTES, resolve_category(domain))
      milestones == BASE_MILESTONES
        \o When(notes.milestone # "" /\ ~InList(notes.milestone, BASE_MILESTONES),
                << notes.milestone >>)
  IN [ phases |-> [idx \in 1..Len(PHASE_NAMES) |->
                     [ phase |-> PHASE_NAMES[idx],
                       duration |-> windows[idx],
                       focus |-> base_focus[idx],
                       owner |-> PHASE_OWNERS[idx],
                       exit_criteria |-> base_exit[idx] ]],
       total_duration_weeks |-> catalog.TIMELINE_TOTAL[complexity],
       milestones |-> milestones,
       cadence_notes |-> Title(complexity) \o " cadence with emphasis on " \o domain_lower
                           \o " risk mitigation and momentum. Launch focus: " \o notes.launch ]

\* ------------------------------------------------------------------------
\* agents/*.py: the six agents.  Each run takes the payload the orchestrator
\* hands over and the shared completion client.
\* ------------------------------------------------------------------------

Agents ==
  {"IdeaAgent", "BusinessAgent", "TechAgent", "DesignAgent", "MarketAgent", "TimelineAgent"}

\* The canned idea IdeaAgent.run substitutes for an empty one.
PLACEHOLDER_IDEA ==
  "An AI copilot that turns founder vision statements into validated product roadmaps."

\* IdeaAgent._select_problem
SelectProblem(sentences) ==
  LET hits == {i \in 1..Len(sentences) :
                 ContainsAny(Lower(sentences[i]),
                             {"problem", "struggle", "pain", "friction", "challenge"})}
  IN IF hits # {} THEN sentences[SetMin(hits)]
     ELSE IF Len(sentences) > 0 THEN sentences[1]
     ELSE "Founders need a sharper way to translate ideas into products."

\* IdeaAgent._select_solution
SelectSolution(sentences, fallback) ==
  LET hits == {i \in 1..Len(sentences) :
                 ContainsAny(Lower(sentences[i]),
                             {"solution", "platform", "tool", "product", "service", "assistant"})}
  IN IF hits # {} THEN sentences[SetMin(hits)] ELSE fallback

\* The idea text IdeaAgent.run works on.
EffectiveIdea(raw) == IF Strip(raw) # "" THEN Strip(raw) ELSE PLACEHOLDER_IDEA

\* IdeaAgent.run
IdeaRun(payload, llm) ==
  LET idea == EffectiveIdea(payload.idea)
      sentences == tokenize_sentences(idea)
      problem == SelectProblem(sentences)
      llm_hint == IF UsesProvider(llm)
                    THEN GenerateText(llm, "Extract a crisp solution phrase for the concept.", idea)
                    ELSE ""
      solution_hint == OrElse(llm_hint,
        "The platform orchestrates expert agents to translate founder intent into a validated blueprint.")
      solution == SelectSolution(sentences, solution_hint)
      domain == infer_domain(idea)
      audience == infer_audience(idea)
      keywords == extract_keywords(idea, 10)
      attributes == detect_attributes(idea)
      complexity == assess_complexity(idea, attributes)
      active == {i \in 1..Len(ATTRIBUTE_ORDER) : attributes[ATTRIBUTE_ORDER[i]]}
      llm_narrative == IF UsesProvider(llm)
        THEN GenerateText(llm,
               "Craft a bold two-sentence product narrative emphasising problem-solution fit and audience impact.",
               "Problem: " \o problem \o "\nSolution: " \o solution \o "\nAudience: " \o audience
                 \o "\nDomain: " \o domain \o "\nComplexity: " \o complexity)
        ELSE ""
      narrative == OrElse(llm_narrative,
        "Akcero refines the " \o Lower(domain) \o " challenge of \"" \o problem
          \o "\" into a blueprint that empowers " \o Lower(audience)
          \o " with a differentiated, agent-powered solution.")
  IN [ problem |-> problem,
       solution |-> solution,
       target_audience |-> audience,
       domain |-> domain,
       keywords |-> keywords,
       value_propositions |-> craft_value_props(domain, audience),
       success_metrics |-> derive_success_metrics(domain),
       attributes |-> attributes,
       execution_complexity |-> complexity,
       top_opportunities |->
         [k \in 1..(IF Len(keywords) < 3 THEN Len(keywords) ELSE 3) |->
            domain \o " opportunity: unlock " \o ReplaceChar(keywords[k], "-", " ")
              \o " leverage for " \o Lower(audience)],
       attribute_highlights |->
         PickIndexes([i \in 1..Len(ATTRIBUTE_ORDER) |->
                        Title(ReplaceChar(ATTRIBUTE_ORDER[i], "_", " "))], active),
       narrative |-> Strip(narrative) ]

\* BusinessAgent._detect_model
DetectModel(text) ==
  LET lowered == Lower(text)
  IN IF ContainsAny(lowered, {"marketplace", "network", "two-sided"})
       THEN "Marketplace commissions with premium workflow subscriptions"
     ELSE IF Contains(lowered, "api") \/ Contains(lowered, "developer")
       THEN "Usage-based API platform augmented with enterprise plans"
     ELSE IF Contains(lowered, "mobile") \/ Contains(lowered, "app")
       THEN "Freemium mobile experience with pro subscription unlocks"
     ELSE IF Contains(lowered, "consulting") \/ Contains(lowered, "services")
       THEN "Hybrid subscription plus expert services retainer"
     ELSE IF Contains(lowered, "hardware") \/ Contains(lowered, "iot")
       THEN "Hardware-enabled subscription with device leasing"
     ELSE "Tiered SaaS subscription with outcome-based add-ons"

\* BusinessAgent._pricing_strategy
PricingStrategy(text) ==
  LET lowered == Lower(text)
  IN IF Contains(lowered, "enterprise")
       THEN "Enterprise annual agreements anchored to ROI milestones"
     ELSE IF Contains(lowered, "startup") \/ Contains(lowered, "founder")
       THEN "Founders-first pricing: free discovery tier, $249/mo accelerator tier"
     ELSE IF Contains(lowered, "marketplace")
       THEN "1.9% transaction fee plus $99/mo curated vendor spotlight"
     ELSE "Layered pricing mixing usage meters with collaborative seats"

\* Agents that look the complexity up under a key idea_context does not have
\* and fall back to a fixed tier.
ContextOfFixedComplexity(payload) ==
  LET idea_context == payload.idea_context
      idea_text == Strip(payload.idea)
  IN [ idea_text |-> idea_text,
       domain |-> idea_context.domain,
       audience |-> idea_context.target_audience,
       attributes |-> idea_context.attributes,
       complexity |-> "standard" ]

\* The context values an agent takes from idea_context, or infers from the
\* raw idea text when idea_context lacks them.
ContextOf(payload) ==
  LET idea_context == payload.idea_context
      idea_text == Strip(payload.idea)
  IN [ idea_text |-> idea_text,
       domain |-> OrElse(idea_context.domain, infer_domain(idea_text)),
       audience |-> OrElse(idea_context.target_audience, infer_audience(idea_text)),
       attributes |-> idea_context.attributes,
       complexity |-> OrElse(idea_context.execution_complexity,
                             assess_complexity(idea_text, idea_context.attributes)) ]

\* BusinessAgent.run
BusinessRun(payload, llm) ==
  LET ctx == ContextOf(payload)
      model == DetectModel(ctx.idea_text)
      playbook == get_business_playbook(ctx.domain, ctx.audience, ctx.attributes,
                                        ctx.complexity, model)
      pricing_hint == PricingStrategy(ctx.idea_text)
      pricing == IF pricing_hint # ""
                    /\ ~Contains(Lower(playbook.pricing_strategy), Lower(pricing_hint))
                   THEN playbook.pricing_strategy \o ". " \o pricing_hint \o "."
                   ELSE playbook.pricing_strategy
      llm_expansion == IF UsesProvider(llm)
        THEN Strip(GenerateText(llm,
               "Craft a crisp expansion narrative (2 sentences) that highlights scale opportunities and risk controls.",
               "Domain: " \o ctx.domain \o "\nAudience: " \o ctx.audience
                 \o "\nModel: " \o playbook.model \o "\nGTM: " \o playbook.go_to_market
                 \o "\nComplexity: " \o ctx.complexity))
        ELSE ""
      streams == playbook.revenue_streams
  IN [ playbook EXCEPT
         !.pricing_strategy = pricing,
         !.expansion_strategy = OrElse(llm_expansion, playbook.expansion_strategy) ]
     @@ [ monetisation_notes |->
            "Lead with " \o streams[1] \o " while layering "
              \o (IF Len(streams) > 1 THEN streams[2] ELSE "scalable add-ons")
              \o " to reinforce predictable ARR." ]

\* TechAgent.run
TechRun(payload, llm) ==
  LET ctx == ContextOf(payload)
      playbook == get_tech_playbook(ctx.domain, ctx.attributes, ctx.complexity)
      llm_architecture == IF UsesProvider(llm)
        THEN Strip(GenerateText(llm,
               "Summarise the architecture in one vivid sentence that emphasises reliability and extensibility.",
               "Architecture: " \o playbook.architecture
                 \o "\nStack: " \o Join(", ", playbook.stack)
                 \o "\nAI: " \o Join(", ", playbook.ai_components)
                 \o "\nDomain: " \o ctx.domain \o "\nComplexity: " \o ctx.complexity))
        ELSE ""
      llm_resilience == IF UsesProvider(llm)
        THEN Strip(GenerateText(llm,
               "Provide one sentence on reliability and risk mitigation priorities for this architecture.",
               "Domain: " \o ctx.domain \o "\nComplexity: " \o ctx.complexity
                 \o "\nAttributes: " \o ReprAttributes(ctx.attributes)
                 \o "\nCurrent notes: " \o playbook.resilience_notes))
        ELSE ""
  IN [ playbook EXCEPT
         !.architecture = OrElse(llm_architecture, playbook.architecture),
         !.resilience_notes = OrElse(llm_resilience, playbook.resilience_notes) ]
     @@ [ scalability |->
            Title(ctx.complexity) \o " delivery cadence with guardrails for "
              \o Lower(resolve_category(ctx.domain)) \o " workloads." ]

\* A design agent that words the brand voice after the business model it
\* finds in the payload.
DesignRunModelAware(payload, llm) ==
  LET ctx == ContextOf(payload)
      palette == get_design_palette(ctx.domain, ctx.audience, ctx.attributes, ctx.complexity)
      model == IF "model" \in DOMAIN payload.business_context
                 THEN payload.business_context.model ELSE "Model TBD"
  IN [ palette EXCEPT !.brand_voice = @ \o ", in service of " \o model ]
     @@ [ inspiration_references |->
            "Blend Akcero's luminous minimalism with proven patterns from category-defining "
              \o Lower(ctx.domain) \o " products and high-trust productivity tools." ]

\* DesignAgent.run
DesignRun(payload, llm) ==
  LET ctx == ContextOf(payload)
      palette == get_design_palette(ctx.domain, ctx.audience, ctx.attributes, ctx.complexity)
      llm_inspiration == IF UsesProvider(llm)
        THEN Strip(GenerateText(llm,
               "Suggest design inspiration references (1 sentence) mixing product and brand cues.",
               "Domain: " \o ctx.domain \o "\nAudience: " \o ctx.audience
                 \o "\nPrinciples: " \o ReprList(palette.experience_principles)
                 \o "\nAttributes: " \o ReprAttributes(ctx.attributes)))
        ELSE ""
  IN palette
     @@ [ inspiration_references |->
            OrElse(llm_inspiration,
              "Blend Akcero's luminous minimalism with proven patterns from category-defining "
                \o Lower(ctx.domain) \o " products and high-trust productivity tools.") ]

\* A market agent that also replaces the channel list by the provider's
\* positioning text.
MarketRunRefinedChannels(payload, llm) ==
  LET ctx == ContextOf(payload)
      playbook == get_market_playbook(ctx.domain, ctx.audience, ctx.attributes, ctx.complexity)
      llm_positioning == IF UsesProvider(llm)
        THEN Strip(GenerateText(llm,
               "Write a crisp positioning statement (1 sentence) naming the wedge and momentum.",
               "Idea: " \o ctx.idea_text \o "\nDomain: " \o ctx.domain))
        ELSE ""
  IN [ playbook EXCEPT
         !.positioning_statement = OrElse(llm_positioning, playbook.positioning_statement),
         !.marketing_channels = IF llm_positioning # "" THEN << llm_positioning >> ELSE @ ]
     @@ [ momentum_notes |->
            "Near-term focus: secure lighthouse design partners, publish quantified wins, and capture narrative authority." ]

\* MarketAgent.run
MarketRun(payload, llm) ==
  LET ctx == ContextOf(payload)
      playbook == get_market_playbook(ctx.domain, ctx.audience, ctx.attributes, ctx.complexity)
      llm_positioning == IF UsesProvider(llm)
        THEN Strip(GenerateText(llm,
               "Write a crisp positioning statement (1 sentence) naming the wedge and momentum.",
               "Idea: " \o ctx.idea_text \o "\nDomain: " \o ctx.domain
                 \o "\nAudience: " \o ctx.audience
                 \o "\nDifferentiators: " \o ReprList(playbook.differentiators)))
        ELSE ""
      llm_momentum == IF UsesProvider(llm)
        THEN Strip(GenerateText(llm,
               "Provide a momentum insight (1 sentence) highlighting urgency and proof loops.",
               "Segment: " \o playbook.segment
                 \o "\nChallenges: " \o ReprList(playbook.market_challenges)
                 \o "\nChannels: " \o ReprList(playbook.marketing_channels)))
        ELSE ""
  IN [ playbook EXCEPT
         !.positioning_statement = OrElse(llm_positioning, playbook.positioning_statement) ]
     @@ [ momentum_notes |->
            OrElse(llm_momentum,
              "Near-term focus: secure lighthouse design partners, publish quantified wins, and capture narrative authority.") ]

\* repr(idea_context): the keys in the order IdeaAgent.run builds them.
ReprIdeaContext(c) ==
  ReprDict(<< << "problem", ReprStr(c.problem) >>,
              << "solution", ReprStr(c.solution) >>,
              << "target_audience", ReprStr(c.target_audience) >>,
              << "domain", ReprStr(c.domain) >>,
              << "keywords", ReprList(c.keywords) >>,
              << "value_propositions", ReprList(c.value_propositions) >>,
              << "success_metrics", ReprList(c.success_metrics) >>,
              << "attributes", ReprAttributes(c.attributes) >>,
              << "execution_complexity", ReprStr(c.execution_complexity) >>,
              << "top_opportunities", ReprList(c.top_opportunities) >>,
              << "attribute_highlights", ReprList(c.attribute_highlights) >>,
              << "narrative", ReprStr(c.narrative) >> >>)

\* repr(business_context): expansion_strategy was popped and re-added last.
ReprBusinessContext(b) ==
  ReprDict(<< << "model", ReprStr(b.model) >>,
              << "pricing_strategy", ReprStr(b.pricing_strategy) >>,
              << "revenue_streams", ReprList(b.revenue_streams) >>,
              << "go_to_market", ReprStr(b.go_to_market) >>,
              << "partners", ReprList(b.partners) >>,
              << "key_metrics", ReprList(b.key_metrics) >>,
              << "sales_enablement", ReprList(b.sales_enablement) >>,
              << "complexity_profile", ReprStr(b.complexity_profile) >>,
              << "expansion_strategy", ReprStr(b.expansion_strategy) >>,
              << "monetisation_notes", ReprStr(b.monetisation_notes) >> >>)

\* repr(tech_context)
ReprTechContext(t) ==
  ReprDict(<< << "architecture", ReprStr(t.architecture) >>,
              << "stack", ReprList(t.stack) >>,
              << "ai_components", ReprList(t.ai_components) >>,
              << "service_components", ReprList(t.service_components) >>,
              << "data_strategy", ReprStr(t.data_strategy) >>,
              << "devops", ReprList(t.devops) >>,
              << "integration_points", ReprList(t.integration_points) >>,
              << "resilience_notes", ReprStr(t.resilience_notes) >>,
              << "scalability", ReprStr(t.scalability) >> >>)

\* d.get(key, default)
DictGet(d, key, default) == IF key \in DOMAIN d THEN d[key] ELSE default

\* A timeline agent that reads the alignment fields under keys the upstream
\* results do not have, and so always reports the defaults.
TimelineRunDefaults(payload, llm) ==
  LET ctx == ContextOf(payload)
  IN get_timeline_blueprint(ctx.domain, ctx.attributes, ctx.complexity)
     @@ [ risk_watchlist |->
            "Monitor scope creep, data readiness, and stakeholder engagement across the orchestration.",
          business_alignment |-> "Model TBD",
          tech_alignment |-> "Architecture TBD" ]

\* TimelineAgent.run
TimelineRun(payload, llm) ==
  LET ctx == ContextOf(payload)
      business_context == DictGet(payload, "business_context", << >>)
      tech_context == DictGet(payload, "tech_context", << >>)
      timeline == get_timeline_blueprint(ctx.domain, ctx.attributes, ctx.complexity)
      llm_risks == IF UsesProvider(llm)
        THEN Strip(GenerateText(llm,
               "List the top risk or contingency to watch (1 sentence).",
               "Idea context: " \o ReprIdeaContext(payload.idea_context)
                 \o "\nBusiness: " \o ReprBusinessContext(business_context)
                 \o "\nTech: " \o ReprTechContext(tech_context)
                 \o "\nAttributes: " \o ReprAttributes(ctx.attributes)))
        ELSE ""
  IN timeline
     @@ [ risk_watchlist |->
            OrElse(llm_risks,
              "Monitor scope creep, data readiness, and stakeholder engagement across the orchestration."),
          business_alignment |-> DictGet(business_context, "model", "Model TBD"),
          tech_alignment |-> DictGet(tech_context, "architecture", "Architecture TBD") ]

\* agent.run(payload), by agent name
AgentRun(agent, payload, llm) ==
  CASE agent = "IdeaAgent" -> IdeaRun(payload, llm)
    [] agent = "BusinessAgent" -> BusinessRun(payload, llm)
    [] agent = "TechAgent" -> TechRun(payload, llm)
    [] agent = "DesignAgent" -> DesignRun(payload, llm)
    [] agent = "MarketAgent" -> MarketRun(payload, llm)
    [] agent = "TimelineAgent" -> TimelineRun(payload, llm)

\* ------------------------------------------------------------------------
\* core/umbrella_agent.py: summary and pitch
\* ------------------------------------------------------------------------

\* items[:n]
Take(items, n) == SubSeq(items, 1, IF Len(items) < n THEN Len(items) ELSE n)

\* str(n) for a natural number
RECURSIVE IntText(_)
IntText(n) ==
  IF n < 10 THEN Char(DIGITS, n + 1)
  ELSE IntText(n \div 10) \o Char(DIGITS, (n % 10) + 1)

\* UmbrellaAgent._summarize
Summarize(llm, idea, business, tech, design, market, timeline) ==
  GenerateText(llm,
    "Create a confident executive summary for the product blueprint. "
      \o "Highlight the core problem, signature solution, business model + pricing, "
      \o "technical advantage, design POV, market positioning, and launch momentum. "
      \o "Cap the summary at 130 words.",
    Join("\n",
      << "Problem: " \o idea.problem,
         "Solution: " \o idea.solution,
         "Audience: " \o idea.target_audience,
         "Complexity: " \o idea.execution_complexity,
         "Value Props: " \o Join(", ", Take(idea.value_propositions, 2)),
         "Business Model: " \o business.model,
         "Pricing: " \o business.pricing_strategy,
         "GTM: " \o business.go_to_market,
         "Key Metrics: " \o Join(", ", Take(business.key_metrics, 2)),
         "Tech Stack: " \o Join(", ", tech.stack),
         "Architecture: " \o tech.architecture,
         "AI Edge: " \o Join(", ", Take(tech.ai_components, 2)),
         "Design Focus: " \o Join(", ", design.experience_principles),
         "Market Segment: " \o market.segment,
         "Competitors: " \o Join(", ", market.competitors),
         "Differentiators: " \o Join(", ", market.differentiators),
         "Positioning: " \o market.positioning_statement,
         "Momentum: " \o market.momentum_notes,
         "Launch Channels: " \o Join(", ", Take(market.marketing_channels, 2)),
         "Timeline: " \o IntText(timeline.total_duration_weeks) \o " weeks",
         "Cadence: " \o timeline.cadence_notes,
         "Risk Watchlist: " \o timeline.risk_watchlist >>))

\* UmbrellaAgent._build_pitch
BuildPitch(llm, blueprint) ==
  GenerateText(llm,
    "Craft a 6 sentence elevator pitch highlighting the problem, "
      \o "solution, business opportunity, pricing, tech advantage, market traction, "
      \o "and roadmap. Keep it upbeat and visionary.",
    "Problem: " \o blueprint.idea.problem
      \o "\nSolution: " \o blueprint.idea.solution
      \o "\nAudience: " \o blueprint.idea.target_audience
      \o "\nComplexity: " \o blueprint.idea.execution_complexity
      \o "\nBusiness Model: " \o blueprint.business_model.model
      \o "\nPricing: " \o blueprint.business_model.pricing_strategy
      \o "\nTech: " \o Join(", ", blueprint.tech_stack.stack)
      \o "\nDifferentiator: " \o Join(", ", blueprint.market_analysis.differentiators)
      \o "\nPositioning: " \o blueprint.market_analysis.positioning_statement
      \o "\nMomentum: " \o blueprint.market_analysis.momentum_notes
      \o "\nRoadmap: " \o IntText(blueprint.timeline.total_duration_weeks) \o " week plan")

\* ------------------------------------------------------------------------
\* core/umbrella_agent.py: UmbrellaAgent.build_blueprint as a state machine.
\* The coroutine build_blueprint, the run_agent coroutines (two of them
\* asyncio tasks in stages 1 and 2) and the worker threads of
\* asyncio.to_thread are the processes.
\* ------------------------------------------------------------------------

\* How many of IDEA_TEXTS a run may be given.
NumIdeas == 5

IDEA_TEXTS ==
  << "",
     "A marketplace for climate-tech hardware sensors connecting regulated enterprise buyers and vendors",
     "  \n ",
     PLACEHOLDER_IDEA,
     "Clinics struggle with audit pain!  Our mobile app gives care teams instant insight. It is a tool for healthcare compliance.",
     "An API and SDK for community developers. The platform streams live data",
     "A consumer wearable for learning" >>

Ideas == {IDEA_TEXTS[i] : i \in 1..(IF NumIdeas < Len(IDEA_TEXTS) THEN NumIdeas ELSE Len(IDEA_TEXTS))}

\* The agents of each stage, in the order build_blueprint creates them.
STAGE_AGENTS ==
  << << "IdeaAgent" >>, << "BusinessAgent", "TechAgent" >>,
     << "DesignAgent", "MarketAgent" >>, << "TimelineAgent" >> >>

\* Stage number (0..3) of an agent.
StageOf(agent) ==
  CHOOSE k \in 0..3 : InList(agent, STAGE_AGENTS[k + 1])

StageSet(k) == {STAGE_AGENTS[k + 1][i] : i \in 1..Len(STAGE_AGENTS[k + 1])}

\* A result variable of build_blueprint that is not bound yet.
NoOutput == [unbound |-> TRUE]

\* Python's None, where a document or a session value is expected.
None == [none |-> TRUE]

\* _ensure_session_state: the defaults of the session keys (no notice shown).
SESSION_DEFAULTS ==
  [ blueprint |-> None, agents_output |-> None, pitch_text |-> "",
    latest_run_id |-> "", loaded_run_id |-> "", notice |-> "" ]

VARIABLES
  idea_text,       \* argument idea_text of build_blueprint
  pitch_mode,      \* argument pitch_mode
  callback,        \* the progress observer: "none", "ok", or "flaky" (it may raise)
  llm,             \* the completion client shared by the agents and the orchestrator
  agents_fail,     \* whether agent.run may raise in this run
  pc,              \* where the coroutine build_blueprint stands
  task,            \* state of each run_agent coroutine
  thread,          \* state of each agent.run call in its worker thread
  calls,           \* how many times each agent.run was invoked
  ret,             \* what each agent.run call returned
  payloads,        \* the payload dicts built so far, one per stage
  out,             \* idea_output, business_output, ... of build_blueprint
  events,          \* the observer's invocations, in order
  observer_errors, \* the invocations on which the observer raised
  summary,         \* summary_text
  blueprint,       \* the assembled ProductBlueprint
  pitch_requests,  \* number of _build_pitch completion requests
  result,          \* what build_blueprint returned
  delivered,       \* over successive runs: the first result returned for each input
  bundle,          \* direct synthesizer calls: the FeatureBundle they are given
  first,           \* direct synthesizer calls: the result of each first call
  again,           \* direct synthesizer calls: upstream and result of each repeated call
  backend,         \* StorageManager.backend
  clock,           \* the wall clock datetime.utcnow() reads, in microseconds
  collection,      \* the documents of the database collection, by _id
  files,           \* the *.json files of STORAGE_DIR, by stem
  saves,           \* the save_run calls that returned: run id and arguments, in order
  last_call,       \* the last call of main, get_run or list_runs and what it gave
  session          \* st.session_state and the notice main showed last

vars ==
  << idea_text, pitch_mode, callback, llm, agents_fail, pc, task, thread, calls, ret, payloads,
     out, events, observer_errors, summary, blueprint, pitch_requests, result, catalog,
     delivered, bundle, first, again, backend, clock, collection, files, saves, last_call, session >>

inputs == << idea_text, pitch_mode, callback, llm, agents_fail >>

\* What app.py and utils/storage.py keep around a run.
persisted == << backend, clock, collection, files, saves, last_call, session >>

\* What only successive runs, direct synthesizer calls and the session use.
beyond_run == << delivered, bundle, first, again, persisted >>

\* get_llm() and the provider behaviours of a run.
LLMs == {StubLLM} \cup {OpenAILLM(reply) : reply \in ProviderReplies}

\* The control flow of build_blueprint does not depend on the idea text or on
\* what the provider answers: runs with an observer or with failing agents are
\* explored for the first idea text and the stub client, runs without
\* either for every idea text and every client.
ScenarioBound ==
  (callback # "none" \/ agents_fail) =>
     (idea_text = IDEA_TEXTS[1] /\ llm = StubLLM)

\* No StorageManager call and no page run yet: the file backend, empty.
NothingStored ==
  /\ backend = "file"
  /\ clock = 0
  /\ collection = << >>
  /\ files = << >>
  /\ saves = << >>
  /\ last_call = None
  /\ session = SESSION_DEFAULTS

Init ==
  /\ idea_text \in Ideas
  /\ pitch_mode \in BOOLEAN
  /\ callback \in {"none", "ok", "flaky"}
  /\ llm \in LLMs
  /\ agents_fail \in BOOLEAN
  /\ ScenarioBound
  /\ pc = "start"
  /\ task = [a \in Agents |-> "none"]
  /\ thread = [a \in Agents |-> "idle"]
  /\ calls = [a \in Agents |-> 0]
  /\ ret = [a \in Agents |-> NoOutput]
  /\ payloads = << >>
  /\ out = [a \in Agents |-> NoOutput]
  /\ events = << >>
  /\ observer_errors = {}
  /\ summary = ""
  /\ blueprint = NoOutput
  /\ pitch_requests = 0
  /\ result = NoOutput
  /\ catalog = TemplateCatalog
  /\ delivered = << >>
  /\ bundle = NoOutput
  /\ first = [a \in Agents |-> NoOutput]
  /\ again = [a \in Agents |-> NoOutput]
  /\ NothingStored

\* run_agent without its second `if callback:` block: only "running" is reported.
NotifyRunningOnly(agent, status) ==
  IF callback = "none" \/ status = "completed" THEN events
  ELSE Append(events, << agent, status >>)

\* `if callback: callback(agent_name, status)`: the invocation is logged.
Notify(agent, status) ==
  IF callback = "none" THEN events ELSE Append(events, << agent, status >>)

\* Whether an observer invocation raises.
ObserverOutcomes == IF callback = "flaky" THEN BOOLEAN ELSE {FALSE}

\* The payload dict build_blueprint builds for stage k from its outputs.
StagePayload(k, text, outputs) ==
  CASE k = 0 -> [ idea |-> text ]
    [] k = 1 -> [ idea |-> text, idea_context |-> outputs["IdeaAgent"] ]
    [] k = 2 -> [ idea |-> text, idea_context |-> outputs["IdeaAgent"],
                  business_context |-> outputs["BusinessAgent"],
                  tech_context |-> outputs["TechAgent"] ]
    [] k = 3 -> [ idea |-> text, idea_context |-> outputs["IdeaAgent"],
                  business_context |-> outputs["BusinessAgent"],
                  tech_context |-> outputs["TechAgent"],
                  design_context |-> outputs["DesignAgent"],
                  market_context |-> outputs["MarketAgent"] ]

\* An agent that normalises the shared idea_context in place
\* (idea_context["domain"] = resolve_category(domain)).
PayloadAfterRunInPlace(agent, payload) ==
  IF "idea_context" \in DOMAIN payload
    THEN [payload EXCEPT !.idea_context.domain = resolve_category(@)]
    ELSE payload

\* What agent.run leaves in the payload dict it was given: the agents only
\* read it (they copy the template lists and build a fresh result dict).
PayloadAfterRun(agent, payload) == payload

\* A business playbook that appends to the template's own list
\* (revenue = template["revenue"] without list(...)).
CatalogAfterRunAppendInPlace(agent, payload, templates) ==
  IF agent # "BusinessAgent" THEN templates
  ELSE LET ctx == ContextOf(payload)
           resolved == resolve_category(ctx.domain)
           category == IF resolved \in DOMAIN templates.BUSINESS_TEMPLATES
                         THEN resolved ELSE "Innovation"
       IN [templates EXCEPT !.BUSINESS_TEMPLATES[category].revenue =
             @ \o When(ctx.attributes["marketplace"],
                       << "Curated marketplace commissions and vendor sponsorships" >>)]

\* A business playbook that extends the template's own go-to-market text
\* (template["gtm"] += ...).
CatalogAfterRunExtendInPlace(agent, payload, templates) ==
  IF agent # "BusinessAgent" THEN templates
  ELSE LET ctx == ContextOf(payload)
           resolved == resolve_category(ctx.domain)
           category == IF resolved \in DOMAIN templates.BUSINESS_TEMPLATES
                         THEN resolved ELSE "Innovation"
       IN [templates EXCEPT !.BUSINESS_TEMPLATES[category].gtm =
             @ \o (IF ctx.attributes["marketplace"]
                     THEN " Recruit a dual-sided design partner cohort to validate supply-demand resonance."
                     ELSE "")]

\* A business playbook that keeps the first revenue stream only, on the
\* template's own list (revenue = template["revenue"]; del revenue[1:]).
CatalogAfterRunTrimInPlace(agent, payload, templates) ==
  IF agent # "BusinessAgent" THEN templates
  ELSE LET ctx == ContextOf(payload)
           resolved == resolve_category(ctx.domain)
           category == IF resolved \in DOMAIN templates.BUSINESS_TEMPLATES
                         THEN resolved ELSE "Innovation"
       IN [templates EXCEPT !.BUSINESS_TEMPLATES[category].revenue = SubSeq(@, 1, 1)]

\* What agent.run leaves in the module-level template dictionaries: the
\* playbook functions copy every template list with list(...) before they
\* append, rebind the strings they extend, and only index TIMELINE_WINDOWS.
CatalogAfterRun(agent, payload, templates) == templates

\* A barrier that waits for the first task only (asyncio.wait with
\* return_when=FIRST_COMPLETED).
StageCompleteAny(k) == \E a \in StageSet(k) : task[a] = "done"

\* A barrier that takes a failed task for a finished one
\* (asyncio.gather with return_exceptions=True).
StageCompleteOrRaised(k) == \A a \in StageSet(k) : task[a] \in {"done", "raised"}

\* asyncio.gather(...) lets build_blueprint continue once every task of the
\* stage has returned.
StageComplete(k) == \A a \in StageSet(k) : task[a] = "done"

\* gather re-raises the first exception of a task of the stage.
StageFailed(k) == \E a \in StageSet(k) : task[a] = "raised"

\* The first half of run_agent: the "running" notification, then to_thread.
\* inline: run_agent is awaited by build_blueprint itself (stages 0 and 3),
\* so an exception is build_blueprint's.
EnterRunAgent(agent, inline, next_pc) ==
  \E raises \in ObserverOutcomes :
    /\ events' = Notify(agent, "running")
    /\ IF raises
         THEN /\ observer_errors' = observer_errors \cup {<< agent, "running" >>}
              /\ task' = [task EXCEPT ![agent] = "raised"]
              /\ thread' = thread
              /\ pc' = IF inline THEN "failed" ELSE pc
         ELSE /\ observer_errors' = observer_errors
              /\ task' = [task EXCEPT ![agent] = "waiting"]
              /\ thread' = [thread EXCEPT ![agent] = "queued"]
              /\ pc' = IF inline THEN next_pc ELSE pc

\* build_blueprint up to its first await: payload, run_agent("IdeaAgent").
StartRun ==
  /\ pc = "start"
  /\ payloads' = << StagePayload(0, idea_text, out) >>
  /\ EnterRunAgent("IdeaAgent", TRUE, "stage0")
  /\ UNCHANGED << inputs, beyond_run, catalog, calls, ret, out, summary, blueprint, pitch_requests, result >>

\* The first step of a stage-1 or stage-2 task.  The event loop runs the
\* tasks in creation order.
TaskStart(agent) ==
  /\ pc \in {"stage1", "stage2"}
  /\ task[agent] = "created"
  /\ LET order == STAGE_AGENTS[StageOf(agent) + 1]
     IN \A i, j \in 1..Len(order) :
          order[j] = agent /\ i < j => task[order[i]] # "created"
  /\ EnterRunAgent(agent, FALSE, pc)
  /\ UNCHANGED << inputs, beyond_run, catalog, calls, ret, payloads, out, summary, blueprint, pitch_requests, result >>

\* A worker thread of the default executor picks the call up.
ThreadStart(agent) ==
  /\ thread[agent] = "queued"
  /\ thread' = [thread EXCEPT ![agent] = "running"]
  /\ calls' = [calls EXCEPT ![agent] = @ + 1]
  /\ UNCHANGED << inputs, beyond_run, catalog, pc, task, ret, payloads, out, events, observer_errors,
                  summary, blueprint, pitch_requests, result >>

\* Whether a generate call on this client raises (the provider's outcome does
\* not depend on the prompts).  No caller of generate catches exceptions.
GenerateRaises(client) == Generate(client, "", "").raised

\* A worker that reports the completion itself
\* (to_thread given a function that calls agent.run and then the callback).
EventsAfterRunNotifying(agent) == Notify(agent, "completed")

\* What the worker thread leaves in the observer's log: to_thread is given
\* agent.run alone, and no agent holds the callback.
EventsAfterRun(agent) == events

\* agent.run(payload) returns or raises in its worker thread.
ThreadFinish(agent) ==
  /\ thread[agent] = "running"
  /\ \E raises \in (IF UsesProvider(llm) /\ GenerateRaises(llm) THEN {TRUE}
                    ELSE IF agents_fail THEN BOOLEAN ELSE {FALSE}) :
       IF raises
         THEN /\ thread' = [thread EXCEPT ![agent] = "raised"]
              /\ UNCHANGED << ret, payloads, catalog >>
         ELSE /\ thread' = [thread EXCEPT ![agent] = "returned"]
              /\ ret' = [ret EXCEPT ![agent] = AgentRun(agent, payloads[StageOf(agent) + 1], llm)]
              /\ payloads' = [payloads EXCEPT ![StageOf(agent) + 1] = PayloadAfterRun(agent, @)]
              /\ catalog' = CatalogAfterRun(agent, payloads[StageOf(agent) + 1], catalog)
  /\ events' = EventsAfterRun(agent)
  /\ UNCHANGED << inputs, beyond_run, calls, pc, task, out, observer_errors, summary, blueprint,
                  pitch_requests, result >>

\* The second half of run_agent once to_thread is over: an agent's exception
\* propagates; otherwise the "completed" notification, then the result.
LeaveRunAgent(agent, inline, next_pc) ==
  IF thread[agent] = "raised"
    THEN /\ task' = [task EXCEPT ![agent] = "raised"]
         /\ pc' = IF inline THEN "failed" ELSE pc
         /\ UNCHANGED << events, observer_errors >>
    ELSE \E raises \in ObserverOutcomes :
           /\ events' = Notify(agent, "completed")
           /\ observer_errors' =
                IF raises THEN observer_errors \cup {<< agent, "completed" >>}
                ELSE observer_errors
           /\ task' = [task EXCEPT ![agent] = IF raises THEN "raised" ELSE "done"]
           /\ pc' = IF inline THEN (IF raises THEN "failed" ELSE next_pc) ELSE pc

\* A stage-1 or stage-2 task resumes after its thread.
TaskResume(agent) ==
  /\ pc \in {"stage1", "stage2"}
  /\ task[agent] = "waiting"
  /\ thread[agent] \in {"returned", "raised"}
  /\ LeaveRunAgent(agent, FALSE, pc)
  /\ UNCHANGED << inputs, beyond_run, catalog, calls, thread, ret, payloads, out, summary, blueprint,
                  pitch_requests, result >>

\* A stage that schedules its first coroutine only.
CreateTasksFirstOnly(k) ==
  [a \in Agents |-> IF a = STAGE_AGENTS[k + 1][1] THEN "created" ELSE task[a]]

\* Tasks a stage hands to the event loop with asyncio.create_task.
CreateTasks(k) ==
  [a \in Agents |-> IF a \in StageSet(k) THEN "created" ELSE task[a]]

\* run_agent("IdeaAgent") returns into build_blueprint, which builds
\* step_two_payload and creates the stage-1 tasks.
IdeaReturns ==
  /\ pc = "stage0"
  /\ task["IdeaAgent"] = "waiting"
  /\ thread["IdeaAgent"] \in {"returned", "raised"}
  /\ \E raises \in ObserverOutcomes :
       /\ events' = (IF thread["IdeaAgent"] = "raised" THEN events
                     ELSE Notify("IdeaAgent", "completed"))
       /\ IF thread["IdeaAgent"] = "raised" \/ raises
            THEN /\ task' = [task EXCEPT !["IdeaAgent"] = "raised"]
                 /\ observer_errors' =
                      IF thread["IdeaAgent"] = "raised" THEN observer_errors
                      ELSE observer_errors \cup {<< "IdeaAgent", "completed" >>}
                 /\ pc' = "failed"
                 /\ UNCHANGED << out, payloads >>
            ELSE /\ observer_errors' = observer_errors
                 /\ out' = [out EXCEPT !["IdeaAgent"] = ret["IdeaAgent"]]
                 /\ payloads' = Append(payloads, StagePayload(1, idea_text, out'))
                 /\ task' = [CreateTasks(1) EXCEPT !["IdeaAgent"] = "done"]
                 /\ pc' = "stage1"
  /\ UNCHANGED << inputs, beyond_run, catalog, calls, thread, ret, summary, blueprint, pitch_requests, result >>

\* gather of stage 1 returns: step_three_payload, the stage-2 tasks.
GatherStage1 ==
  /\ pc = "stage1"
  /\ StageComplete(1)
  /\ out' = [out EXCEPT !["BusinessAgent"] = ret["BusinessAgent"],
                        !["TechAgent"] = ret["TechAgent"]]
  /\ payloads' = Append(payloads, StagePayload(2, idea_text, out'))
  /\ task' = CreateTasks(2)
  /\ pc' = "stage2"
  /\ UNCHANGED << inputs, beyond_run, catalog, calls, thread, ret, events, observer_errors, summary, blueprint,
                  pitch_requests, result >>

\* gather of stage 2 returns: timeline_payload, run_agent("TimelineAgent").
GatherStage2 ==
  /\ pc = "stage2"
  /\ StageComplete(2)
  /\ out' = [out EXCEPT !["DesignAgent"] = ret["DesignAgent"],
                        !["MarketAgent"] = ret["MarketAgent"]]
  /\ payloads' = Append(payloads, StagePayload(3, idea_text, out'))
  /\ EnterRunAgent("TimelineAgent", TRUE, "stage3")
  /\ UNCHANGED << inputs, beyond_run, catalog, calls, ret, summary, blueprint, pitch_requests, result >>

\* gather raises the exception of a task into build_blueprint; asyncio.run
\* then cancels the tasks still pending.  Every task of the stage has had its
\* first step by then (the loop runs callbacks in order).
GatherRaises ==
  /\ pc \in {"stage1", "stage2"}
  /\ \E k \in 1..2 :
       /\ pc = (IF k = 1 THEN "stage1" ELSE "stage2")
       /\ StageFailed(k)
       /\ \A a \in StageSet(k) : task[a] # "created"
  /\ task' = [a \in Agents |-> IF task[a] = "waiting" THEN "cancelled" ELSE task[a]]
  /\ pc' = "failed"
  /\ UNCHANGED << inputs, beyond_run, catalog, calls, thread, ret, payloads, out, events, observer_errors, summary,
                  blueprint, pitch_requests, result >>

\* run_agent("TimelineAgent") returns into build_blueprint.
TimelineReturns ==
  /\ pc = "stage3"
  /\ task["TimelineAgent"] = "waiting"
  /\ thread["TimelineAgent"] \in {"returned", "raised"}
  /\ LeaveRunAgent("TimelineAgent", TRUE, "summarize")
  /\ out' = IF thread["TimelineAgent"] = "returned" /\ task'["TimelineAgent"] = "done"
              THEN [out EXCEPT !["TimelineAgent"] = ret["TimelineAgent"]]
              ELSE out
  /\ UNCHANGED << inputs, beyond_run, catalog, calls, thread, ret, payloads, summary, blueprint, pitch_requests, result >>

\* summary_text = self._summarize(...); blueprint = {...}
Assemble ==
  /\ pc = "summarize"
  /\ IF GenerateRaises(llm)
       THEN /\ pc' = "failed"
            /\ UNCHANGED << summary, blueprint >>
       ELSE /\ summary' = Summarize(llm, out["IdeaAgent"], out["BusinessAgent"],
                                    out["TechAgent"], out["DesignAgent"],
                                    out["MarketAgent"], out["TimelineAgent"])
            /\ blueprint' = [ idea |-> out["IdeaAgent"],
                              business_model |-> out["BusinessAgent"],
                              tech_stack |-> out["TechAgent"],
                              ui_design |-> out["DesignAgent"],
                              market_analysis |-> out["MarketAgent"],
                              timeline |-> out["TimelineAgent"],
                              summary |-> summary' ]
            /\ pc' = "pitch"
  /\ UNCHANGED << inputs, beyond_run, catalog, calls, task, thread, ret, payloads, out, events, observer_errors,
                  pitch_requests, result >>

\* A build_blueprint that builds the pitch in every run and drops it when
\* pitch_mode is off.
PitchRequestsAlways(mode, made) == made + 1

\* The _build_pitch calls made so far, each one llm.generate request:
\* `self._build_pitch(blueprint) if pitch_mode else ""`.
PitchRequests(mode, made) == IF mode THEN made + 1 ELSE made

\* pitch_text = self._build_pitch(blueprint) if pitch_mode else ""; return
Return ==
  /\ pc = "pitch"
  /\ pitch_requests' = PitchRequests(pitch_mode, pitch_requests)
  /\ IF pitch_mode /\ GenerateRaises(llm)
       THEN /\ pc' = "failed"
            /\ UNCHANGED result
       ELSE /\ result' =
                 [ blueprint |-> blueprint,
                   agents |-> [ idea |-> out["IdeaAgent"],
                                business |-> out["BusinessAgent"],
                                tech |-> out["TechAgent"],
                                design |-> out["DesignAgent"],
                                market |-> out["MarketAgent"],
                                timeline |-> out["TimelineAgent"] ],
                   pitch |-> Strip(IF pitch_mode THEN BuildPitch(llm, blueprint) ELSE "") ]
            /\ pc' = "done"
  /\ UNCHANGED << inputs, beyond_run, catalog, calls, task, thread, ret, payloads, out, events, observer_errors,
                  summary, blueprint >>

Next ==
  \/ StartRun
  \/ \E a \in StageSet(1) \cup StageSet(2) : TaskStart(a)
  \/ \E a \in Agents : ThreadStart(a)
  \/ \E a \in Agents : ThreadFinish(a)
  \/ \E a \in StageSet(1) \cup StageSet(2) : TaskResume(a)
  \/ IdeaReturns
  \/ GatherStage1
  \/ GatherStage2
  \/ GatherRaises
  \/ TimelineReturns
  \/ Assemble
  \/ Return

Spec == Init /\ [][Next]_vars

\* Scheduling.  The event loop runs every ready coroutine and the default
\* executor every queued call: weak fairness of the loop's and the executor's
\* steps.  Every agent.run call returns or raises, and _summarize and
\* _build_pitch return: no call stays in progress for ever.
FairSpec ==
  /\ Spec
  /\ WF_vars(StartRun)
  /\ \A a \in StageSet(1) \cup StageSet(2) : WF_vars(TaskStart(a)) /\ WF_vars(TaskResume(a))
  /\ \A a \in Agents : WF_vars(ThreadStart(a))
  /\ WF_vars(IdeaReturns)
  /\ WF_vars(GatherStage1)
  /\ WF_vars(GatherStage2)
  /\ WF_vars(GatherRaises)
  /\ WF_vars(TimelineReturns)
  /\ \A a \in Agents : []<>(thread[a] # "running")
  /\ []<>(pc \notin {"summarize", "pitch"})

\* ------------------------------------------------------------------------
\* agents/*.py: the five facet synthesizers called directly, one after the
\* other and then once more, on a FeatureBundle (the dict IdeaAgent.run
\* returns) with any domain, audience and attribute flags.
\* ------------------------------------------------------------------------

\* How many attribute flags a FeatureBundle given to the direct calls has set
\* at most, unless it is one of FLAG_SETS.
MaxActive == 1

\* The flags detect_attributes sets for ideas that name several concerns.
FLAG_SETS ==
  { {"regulatory", "marketplace", "hardware", "enterprise", "developer"},
    {"regulatory", "realtime", "data_heavy", "mobile", "developer"},
    {"realtime", "data_heavy", "community", "developer"} }

\* detect_attributes results: every dict with at most MaxActive flags set, and
\* those of FLAG_SETS.
AttributeDicts ==
  {[a \in AttributeNames |-> a \in s] :
     s \in {t \in SUBSET AttributeNames : Cardinality(t) <= MaxActive} \cup FLAG_SETS}

\* The audience that goes with an attribute dict: infer_audience and
\* detect_attributes both look for "enterprise" in the text.
SynthAudience(attributes) ==
  IF attributes["enterprise"] THEN "Enterprise innovation teams"
  ELSE "Visionary product builders"

\* payload["idea"] of the direct calls.
SynthIdea == IDEA_TEXTS[7]

\* The dict IdeaAgent.run builds when its inference functions yield this
\* domain, audience and attribute dict; base is what it returns for SynthIdea.
FeatureBundle(base, domain, audience, attributes) ==
  [ base EXCEPT
      !.target_audience = audience,
      !.domain = domain,
      !.value_propositions = craft_value_props(domain, audience),
      !.success_metrics = derive_success_metrics(domain),
      !.attributes = attributes,
      !.execution_complexity = assess_complexity(SynthIdea, attributes),
      !.top_opportunities =
         [k \in DOMAIN @ |->
            domain \o " opportunity: unlock " \o ReplaceChar(base.keywords[k], "-", " ")
              \o " leverage for " \o Lower(audience)],
      !.attribute_highlights =
         PickIndexes([i \in 1..Len(ATTRIBUTE_ORDER) |->
                        Title(ReplaceChar(ATTRIBUTE_ORDER[i], "_", " "))],
                     {i \in 1..Len(ATTRIBUTE_ORDER) : attributes[ATTRIBUTE_ORDER[i]]}),
      !.narrative =
         "Akcero refines the " \o Lower(domain) \o " challenge of \"" \o base.problem
           \o "\" into a blueprint that empowers " \o Lower(audience)
           \o " with a differentiated, agent-powered solution." ]

\* The facet synthesizers in the order of their stages.
FACET_ORDER ==
  << "BusinessAgent", "TechAgent", "DesignAgent", "MarketAgent", "TimelineAgent" >>

Facets == {FACET_ORDER[i] : i \in 1..Len(FACET_ORDER)}

\* The facet synthesizers that come before this one.
EarlierFacets(agent) ==
  {FACET_ORDER[i] : i \in {j \in 1..Len(FACET_ORDER) :
                             \E k \in (j + 1)..Len(FACET_ORDER) : FACET_ORDER[k] = agent}}

\* The variables of one build_blueprint run.
run_state ==
  << pc, task, thread, calls, ret, payloads, out, events, observer_errors, summary,
     blueprint, pitch_requests, result >>

\* The FeatureBundle and the first results, as build_blueprint's outputs.
SynthOutputs == [a \in Agents |-> IF a = "IdeaAgent" THEN bundle ELSE first[a]]

\* The payload build_blueprint would build for the agent from them.
SynthPayload(agent) == StagePayload(StageOf(agent), idea_text, SynthOutputs)

\* build_blueprint is not called: its arguments and locals are unset.
NoRun ==
  /\ pitch_mode = FALSE
  /\ callback = "none"
  /\ agents_fail = FALSE
  /\ delivered = << >>
  /\ pc = "start"
  /\ task = [a \in Agents |-> "none"]
  /\ thread = [a \in Agents |-> "idle"]
  /\ calls = [a \in Agents |-> 0]
  /\ ret = [a \in Agents |-> NoOutput]
  /\ payloads = << >>
  /\ out = [a \in Agents |-> NoOutput]
  /\ events = << >>
  /\ observer_errors = {}
  /\ summary = ""
  /\ blueprint = NoOutput
  /\ pitch_requests = 0
  /\ result = NoOutput

SynthInit ==
  /\ NoRun
  /\ idea_text = SynthIdea
  /\ llm \in {StubLLM, UnconfiguredLLM}
  /\ bundle = NoOutput
  /\ first = [a \in Agents |-> NoOutput]
  /\ again = [a \in Agents |-> NoOutput]
  /\ catalog = TemplateCatalog
  /\ NothingStored

\* The upstream results a repeated call may be given: the same ones, and for
\* the design agent also none, or the two exchanged.
RepeatUpstreams(agent) ==
  IF agent = "DesignAgent" THEN {"same", "none", "exchanged"} ELSE {"same"}

\* The payload of a repeated call.
RepeatPayload(agent, upstream) ==
  LET payload == SynthPayload(agent)
  IN CASE upstream = "same" -> payload
       [] upstream = "none" ->
            [payload EXCEPT !.business_context = << >>, !.tech_context = << >>]
       [] upstream = "exchanged" ->
            [payload EXCEPT !.business_context = payload.tech_context,
                            !.tech_context = payload.business_context]

\* The calls that can be made on the agent now: the extractor once; then each
\* synthesizer once, in the order of the stages; then each once more.
SynthCalls(agent) ==
  IF agent = "IdeaAgent"
    THEN IF bundle = NoOutput THEN {<< "first", "same" >>} ELSE {}
    ELSE (IF /\ bundle # NoOutput
             /\ first[agent] = NoOutput
             /\ \A b \in EarlierFacets(agent) : first[b] # NoOutput
            THEN {<< "first", "same" >>} ELSE {})
         \cup
         (IF /\ \A b \in Facets : first[b] # NoOutput
             /\ again[agent] = NoOutput
             /\ \A b \in EarlierFacets(agent) : again[b] # NoOutput
            THEN {<< "again", upstream >> : upstream \in RepeatUpstreams(agent)} ELSE {})

\* agent.run(payload) on the payload build_blueprint would build from the
\* FeatureBundle and the results so far.  What the extractor returns is taken
\* with any outcome of its inference functions.
Synthesize(agent) ==
  \E call \in SynthCalls(agent) :
    \E payload \in {IF call[1] = "first" THEN SynthPayload(agent)
                     ELSE RepeatPayload(agent, call[2])} :
      \E returned \in {AgentRun(agent, payload, llm)} :
        /\ IF agent = "IdeaAgent"
             THEN /\ \E i \in 1..Len(DOMAIN_ORDER), attributes \in AttributeDicts :
                       /\ llm = UnconfiguredLLM => \A a \in AttributeNames : ~attributes[a]
                       /\ bundle' = FeatureBundle(returned, DOMAIN_ORDER[i],
                                                  SynthAudience(attributes), attributes)
                  /\ UNCHANGED << first, again >>
             ELSE IF call[1] = "first"
               THEN /\ first' = [first EXCEPT ![agent] = returned]
                    /\ UNCHANGED << bundle, again >>
               ELSE /\ again' = [again EXCEPT ![agent] =
                                   [ upstream |-> call[2], result |-> returned ]]
                    /\ UNCHANGED << bundle, first >>
        /\ catalog' = CatalogAfterRun(agent, payload, catalog)
        /\ UNCHANGED << inputs, run_state, delivered, persisted >>

SynthNext == \E agent \in Agents : Synthesize(agent)

SynthSpec == SynthInit /\ [][SynthNext]_vars

\* ------------------------------------------------------------------------
\* agents/agent_utils.py: assess_complexity called on a text of a given
\* number of words and on any attribute dict.
\* ------------------------------------------------------------------------

\* Word counts on both sides of the two thresholds of assess_complexity.
WORD_COUNTS == {0, 3, 140, 141, 220, 221}

\* A text of n words.
WordText(n) == Join(" ", [i \in 1..n |-> "idea"])

WORD_TEXTS == [n \in WORD_COUNTS |-> WordText(n)]

ComplexityInit ==
  /\ NoRun
  /\ idea_text \in {WORD_TEXTS[n] : n \in WORD_COUNTS}
  /\ llm = StubLLM
  /\ bundle \in {[ attributes |-> attributes, execution_complexity |-> "" ] :
                    attributes \in [AttributeNames -> BOOLEAN]}
  /\ first = [a \in Agents |-> NoOutput]
  /\ again = [a \in Agents |-> NoOutput]
  /\ catalog = TemplateCatalog
  /\ NothingStored

\* complexity = assess_complexity(idea, attributes)
AssessComplexity ==
  /\ bundle.execution_complexity = ""
  /\ bundle' = [bundle EXCEPT
                  !.execution_complexity = assess_complexity(idea_text, bundle.attributes)]
  /\ UNCHANGED << inputs, run_state, delivered, first, again, catalog, persisted >>

ComplexitySpec == ComplexityInit /\ [][AssessComplexity]_vars

\* ------------------------------------------------------------------------
\* app.py: init_services builds one UmbrellaAgent, cached for the process;
\* every submission calls asyncio.run(orchestrator.build_blueprint(...)) on
\* it, and sessions run in threads of their own.
\* ------------------------------------------------------------------------

\* The idea texts submitted over successive runs.
RunIdeas == {IDEA_TEXTS[1], IDEA_TEXTS[2]}

\* The submissions: idea text, pitch mode, and whether agents may raise in
\* the run.  The pitch is asked for the second idea text, and agents may
\* raise in runs on the first.
RunInputs ==
  {in \in RunIdeas \X BOOLEAN \X BOOLEAN :
     /\ in[2] => in[1] = IDEA_TEXTS[2]
     /\ in[3] => (in[1] = IDEA_TEXTS[1] /\ ~in[2])}

RunsInit ==
  /\ NoRun
  /\ idea_text \in RunIdeas
  /\ llm = StubLLM
  /\ bundle = NoOutput
  /\ first = [a \in Agents |-> NoOutput]
  /\ again = [a \in Agents |-> NoOutput]
  /\ catalog = TemplateCatalog
  /\ NothingStored

\* build_blueprint has returned or raised; the session submits again.  Nothing
\* of the finished run is kept by the orchestrator: its locals are gone.
NewRun ==
  /\ pc \in {"done", "failed"}
  /\ delivered' = IF pc = "done" /\ << idea_text, pitch_mode >> \notin DOMAIN delivered
                    THEN delivered @@ (<< idea_text, pitch_mode >> :> result)
                    ELSE delivered
  /\ \E in \in RunInputs :
       /\ idea_text' = in[1]
       /\ pitch_mode' = in[2]
       /\ agents_fail' = in[3]
  /\ pc' = "start"
  /\ task' = [a \in Agents |-> "none"]
  /\ thread' = [a \in Agents |-> "idle"]
  /\ calls' = [a \in Agents |-> 0]
  /\ ret' = [a \in Agents |-> NoOutput]
  /\ payloads' = << >>
  /\ out' = [a \in Agents |-> NoOutput]
  /\ events' = << >>
  /\ observer_errors' = {}
  /\ summary' = ""
  /\ blueprint' = NoOutput
  /\ pitch_requests' = 0
  /\ result' = NoOutput
  /\ UNCHANGED << callback, llm, catalog, bundle, first, again, persisted >>

\* An agent.run call of the run another session makes at the same time on the
\* same idea text, once this run has built the payload of that stage.  Its
\* result goes to the locals of that other run; what it leaves in the module-
\* level template dictionaries is what this run sees of it.
ConcurrentCall(agent) ==
  /\ Len(payloads) > StageOf(agent)
  /\ catalog' = CatalogAfterRun(agent, payloads[StageOf(agent) + 1], catalog)
  /\ UNCHANGED << inputs, beyond_run, run_state >>

RunsNext ==
  \/ Next
  \/ NewRun
  \/ \E agent \in Agents : ConcurrentCall(agent)

RunsSpec == RunsInit /\ [][RunsNext]_vars

\* ------------------------------------------------------------------------
\* utils/storage.py: StorageManager, and the generate block of app.py main
\* that saves each fresh run.  The database and the file system are the
\* environment: an operation on either may fail.
\* ------------------------------------------------------------------------

\* How far the wall clock runs, and how many saves may return.
MaxClock == 1

MaxSaves == 2

\* The limits list_runs is called with.
MaxLimit == 2

\* A file whose write broke off: not a JSON document.
Truncated == [truncated |-> TRUE]

\* What _generate_blueprint gives main: the page's idea text with the dict
\* build_blueprint returned for it.
GENERATED ==
  { [ idea_text |-> "a wearable",
      result |-> [ blueprint |-> [ idea |-> [ elevator_pitch |-> "a wearable" ], total_duration_weeks |-> 16 ],
                   agents |-> [ IdeaAgent |-> [ domain |-> "Wearables & IoT" ] ],
                   pitch |-> "" ] ],
    [ idea_text |-> "a clinic app",
      result |-> [ blueprint |-> [ idea |-> [ elevator_pitch |-> "a clinic app" ], total_duration_weeks |-> 22 ],
                   agents |-> [ IdeaAgent |-> [ domain |-> "Healthcare & Wellness" ] ],
                   pitch |-> "Clinics, meet your app." ] ] }

\* str.zfill, as %f pads the microseconds.
RECURSIVE ZeroPad(_, _)
ZeroPad(text, width) == IF Len(text) >= width THEN text ELSE ZeroPad("0" \o text, width)

\* datetime.strftime("%Y%m%d%H%M%S%f") of the instant `now` microseconds into
\* the second the model's clock starts in.
strftime(now) == "20240101000000" \o ZeroPad(IntText(now), 6)

\* datetime.isoformat(): the microseconds are left out when they are zero.
isoformat(now) ==
  "2024-01-01T00:00:00" \o (IF now = 0 THEN "" ELSE "." \o ZeroPad(IntText(now), 6))

\* The characters of run ids and timestamps, in code point order.
CODE_POINTS == "-.0123456789:T"

Ord(c) == CHOOSE i \in 1..Len(CODE_POINTS) : Char(CODE_POINTS, i) = c

\* a < b for str
RECURSIVE StrLess(_, _)
StrLess(a, b) ==
  IF b = "" THEN FALSE
  ELSE IF a = "" THEN TRUE
  ELSE IF Char(a, 1) = Char(b, 1) THEN StrLess(SubSeq(a, 2, Len(a)), SubSeq(b, 2, Len(b)))
  ELSE Ord(Char(a, 1)) < Ord(Char(b, 1))

\* The orders a descending sort of the set S by key may give (equal keys in
\* either order).
SortedDescending(S, key) ==
  { order \in [1..Cardinality(S) -> S] :
      /\ \A i, j \in 1..Cardinality(S) : i # j => order[i] # order[j]
      /\ \A i \in 1..(Cardinality(S) - 1) : ~StrLess(key[order[i]], key[order[i + 1]]) }

\* {"_id": run_id, **record}
Document(run_id, idea, agents_output, blueprint_dict, pitch, created_at) ==
  [ _id |-> run_id, idea_text |-> idea, agents_output |-> agents_output,
    blueprint |-> blueprint_dict, pitch |-> pitch, created_at |-> created_at ]

\* f with f[k] = v
Put(f, k, v) == [x \in DOMAIN f \cup {k} |-> IF x = k THEN v ELSE f[x]]

\* collection.insert_one(doc): "inserted", "failed" (PyMongoError: the server
\* cannot be reached, or the _id is taken), or "unacknowledged" (the server
\* stored the document and the reply was lost, which raises as well).
InsertOutcomes(coll, doc) ==
  IF doc._id \in DOMAIN coll THEN {"failed"} ELSE {"inserted", "failed", "unacknowledged"}

\* file_path.open("w") and json.dump: "written", "unopened" (open raised
\* OSError, the file is as before) or "truncated" (the write raised).
WRITE_OUTCOMES == {"written", "unopened", "truncated"}

\* StorageManager.save_run at the clock readings `now` and `created`: what it
\* may do to the collection and the files, and whether it returns or raises.
save_run(coll, dir, now, created, idea, agents_output, blueprint_dict, pitch) ==
  LET run_id == strftime(now)
      doc == Document(run_id, idea, agents_output, blueprint_dict, pitch, isoformat(created))
      to_file(coll_after) ==
        { [ raised |-> write # "written", run_id |-> run_id, collection |-> coll_after,
            files |-> CASE write = "written" -> Put(dir, run_id, doc)
                        [] write = "truncated" -> Put(dir, run_id, Truncated)
                        [] OTHER -> dir ] : write \in WRITE_OUTCOMES }
  IN  IF backend = "mongo"
      THEN UNION { CASE insert = "inserted" ->
                          { [ raised |-> FALSE, run_id |-> run_id,
                              collection |-> Put(coll, run_id, doc), files |-> dir ] }
                     [] insert = "unacknowledged" -> to_file(Put(coll, run_id, doc))
                     [] OTHER -> to_file(coll) : insert \in InsertOutcomes(coll, doc) }
      ELSE to_file(coll)

\* The three keys list_runs returns of a document.
RunSummary(doc) == [ id |-> doc._id, idea_text |-> doc.idea_text, created_at |-> doc.created_at ]

\* list_runs from the files: sorted by path descending, undecodable ones skipped.
ListFiles(dir, limit) ==
  LET stems == DOMAIN dir
      order == CHOOSE o \in SortedDescending(stems, [stem \in stems |-> stem]) : TRUE
      readable == PickIndexes(order, {i \in 1..Cardinality(stems) : dir[order[i]] # Truncated})
  IN  Take([i \in 1..Len(readable) |-> RunSummary(dir[readable[i]])], limit)

\* collection.find({}, ...).sort("created_at", -1).limit(limit), as summaries.
ListCollection(coll, limit) ==
  LET ids == DOMAIN coll
  IN  { Take([i \in 1..Cardinality(ids) |-> RunSummary(coll[order[i]])], limit) :
          order \in SortedDescending(ids, [id \in ids |-> coll[id].created_at]) }

\* StorageManager.list_runs: what it may return.  The find raises
\* PyMongoError when the server cannot be reached.
list_runs(coll, dir, limit) ==
  IF backend = "mongo"
  THEN ListCollection(coll, limit) \cup {ListFiles(dir, limit)}
  ELSE {ListFiles(dir, limit)}

\* A call that raised instead of returning.
Raised == [raised |-> TRUE]

\* get_run from the files.  json.load raises on a file that is no document.
GetFile(dir, run_id) ==
  IF run_id \notin DOMAIN dir THEN None
  ELSE IF dir[run_id] = Truncated THEN Raised
  ELSE dir[run_id]

\* get_run from the collection: find_one by the string id; when there is none
\* ObjectId(run_id) raises for a run id (it is not 24 hexadecimal digits) and
\* doc stays None.
GetDocument(coll, run_id) ==
  IF run_id \in DOMAIN coll THEN coll[run_id] ELSE None

\* StorageManager.get_run: what it may return.  The files are read only when
\* find_one raised PyMongoError.
get_run(coll, dir, run_id) ==
  IF backend = "mongo"
  THEN {GetDocument(coll, run_id), GetFile(dir, run_id)}
  ELSE {GetFile(dir, run_id)}

\* main: st.session_state after a fresh result, before the save is tried.
StoreGenerated(state, blueprint_result) ==
  [state EXCEPT !.blueprint = blueprint_result.blueprint,
                !.agents_output = blueprint_result.agents,
                !.pitch_text = blueprint_result.pitch]

\* main: save_run returned.
SaveSucceeded(state, run_id) ==
  [state EXCEPT !.latest_run_id = run_id, !.loaded_run_id = run_id, !.notice = "success"]

\* An except clause that also clears what the failed run had put into the session.
SaveFailedRollback(state) ==
  [state EXCEPT !.blueprint = None, !.agents_output = None, !.pitch_text = "", !.notice = "warning"]

\* main: save_run raised; the except clause only warns.
SaveFailed(state) == [state EXCEPT !.notice = "warning"]

\* The run ids a reader may ask for: the ones of this clock, saved or not.
RunIds == {strftime(now) : now \in 0..MaxClock}

\* A StorageManager from get_db(), and nothing stored or shown yet.
StorageInit ==
  /\ NoRun
  /\ idea_text = ""
  /\ llm = StubLLM
  /\ bundle = NoOutput
  /\ first = [a \in Agents |-> NoOutput]
  /\ again = [a \in Agents |-> NoOutput]
  /\ catalog = TemplateCatalog
  /\ backend \in {"mongo", "file"}
  /\ clock = 0
  /\ collection = << >>
  /\ files = << >>
  /\ saves = << >>
  /\ last_call = None
  /\ session = SESSION_DEFAULTS

\* Time passes.
Tick ==
  /\ clock < MaxClock
  /\ clock' = clock + 1
  /\ UNCHANGED << inputs, run_state, catalog, delivered, bundle, first, again,
                  backend, collection, files, saves, last_call, session >>

\* main, "Generate Blueprint" clicked with an idea text: the result goes into
\* the session, then save_run is tried.  The clock may advance between the
\* two readings save_run takes.
GenerateAndSave ==
  /\ Len(saves) < MaxSaves
  /\ \E generated \in GENERATED, created \in {clock, clock + 1} \cap (0..MaxClock) :
       LET blueprint_result == generated.result
           shown == StoreGenerated(session, blueprint_result)
       IN  \E outcome \in save_run(collection, files, clock, created, generated.idea_text,
                                    blueprint_result.agents, blueprint_result.blueprint,
                                    blueprint_result.pitch) :
             /\ clock' = created
             /\ collection' = outcome.collection
             /\ files' = outcome.files
             /\ last_call' = [ op |-> "generate", value |-> blueprint_result, raised |-> outcome.raised ]
             /\ IF outcome.raised
                  THEN /\ session' = SaveFailed(shown)
                       /\ saves' = saves
                  ELSE /\ session' = SaveSucceeded(shown, outcome.run_id)
                       /\ saves' = Append(saves, [ run_id |-> outcome.run_id,
                                                    idea_text |-> generated.idea_text,
                                                    agents_output |-> blueprint_result.agents,
                                                    blueprint |-> blueprint_result.blueprint,
                                                    pitch |-> blueprint_result.pitch ])
  /\ UNCHANGED << inputs, run_state, catalog, delivered, bundle, first, again, backend >>

\* A save_run call of any caller (main, or the "Save to Library" button).
SaveRun ==
  /\ Len(saves) < MaxSaves
  /\ \E generated \in GENERATED, created \in {clock, clock + 1} \cap (0..MaxClock) :
       \E outcome \in save_run(collection, files, clock, created, generated.idea_text,
                                generated.result.agents, generated.result.blueprint,
                                generated.result.pitch) :
         /\ clock' = created
         /\ collection' = outcome.collection
         /\ files' = outcome.files
         /\ last_call' = [ op |-> "save_run", raised |-> outcome.raised ]
         /\ saves' = IF outcome.raised THEN saves
                      ELSE Append(saves, [ run_id |-> outcome.run_id,
                                           idea_text |-> generated.idea_text,
                                           agents_output |-> generated.result.agents,
                                           blueprint |-> generated.result.blueprint,
                                           pitch |-> generated.result.pitch ])
  /\ UNCHANGED << inputs, run_state, catalog, delivered, bundle, first, again, backend, session >>

\* A get_run(run_id) call.
GetRun ==
  /\ \E run_id \in RunIds : \E doc \in get_run(collection, files, run_id) :
       last_call' = [ op |-> "get_run", run_id |-> run_id, value |-> doc ]
  /\ UNCHANGED << inputs, run_state, catalog, delivered, bundle, first, again,
                  backend, clock, collection, files, saves, session >>

\* A list_runs(limit) call.
ListRuns ==
  /\ \E limit \in 1..MaxLimit : \E runs \in list_runs(collection, files, limit) :
       last_call' = [ op |-> "list_runs", limit |-> limit, value |-> runs ]
  /\ UNCHANGED << inputs, run_state, catalog, delivered, bundle, first, again,
                  backend, clock, collection, files, saves, session >>

StorageNext == Tick \/ SaveRun \/ GetRun \/ ListRuns

StorageSpec == StorageInit /\ [][StorageNext]_vars

\* The page with its generate button alone.
SessionNext == Tick \/ GenerateAndSave

SessionSpec == StorageInit /\ [][SessionNext]_vars

\* ------------------------------------------------------------------------
\* Properties of build_blueprint
\* ------------------------------------------------------------------------

\* Positions of an observer invocation in the event log.
EventIndexes(agent, status) ==
  {i \in 1..Len(events) : events[i] = << agent, status >>}

\* No agent.run has raised and no observer invocation has raised so far.
NoFailureSoFar ==
  /\ observer_errors = {}
  /\ \A a \in Agents : thread[a] # "raised"

\* C1: an agent of a later stage is not started (its run_agent coroutine is
\* not even created) before every agent of every earlier stage has returned
\* and its run_agent has completed, whatever the interleaving of the tasks
\* and worker threads.
C1_StageBarrier ==
  \A a, b \in Agents :
    (StageOf(b) < StageOf(a) /\ (task[a] # "none" \/ thread[a] # "idle"))
      => (task[b] = "done" /\ thread[b] = "returned")

\* The timeline agent runs, every agent of the three earlier stages being done.
C1_Witness ==
  /\ thread["TimelineAgent"] = "running"
  /\ \A a \in Agents \ {"TimelineAgent"} : task[a] = "done"

\* C2: with an observer and no failure, each agent gets exactly one
\* "running" event, issued before its work starts, and exactly one
\* "completed" event, issued after its result is available and after its
\* "running" event; a finished run has issued 12 events.
C2_ObserverEvents ==
  (callback # "none" /\ NoFailureSoFar) =>
    /\ \A a \in Agents :
         /\ Cardinality(EventIndexes(a, "running")) =
              (IF task[a] \in {"none", "created"} THEN 0 ELSE 1)
         /\ Cardinality(EventIndexes(a, "completed")) = (IF task[a] = "done" THEN 1 ELSE 0)
         /\ thread[a] # "idle" => EventIndexes(a, "running") # {}
         /\ \A i \in EventIndexes(a, "completed") :
              /\ thread[a] = "returned"
              /\ ret[a] # NoOutput
              /\ \E j \in EventIndexes(a, "running") : j < i
    /\ pc = "done" =>
         /\ Len(events) = 2 * Cardinality(Agents)
         /\ \A a \in Agents : task[a] = "done"

\* A finished run whose observer has seen all twelve events.
C2_Witness ==
  /\ pc = "done"
  /\ callback = "ok"
  /\ Len(events) = 12
  /\ events[1] = << "IdeaAgent", "running" >>
  /\ events[12] = << "TimelineAgent", "completed" >>

\* C3: an observer invocation that raises fails neither the run_agent call it
\* brackets nor the run.
C3_ObserverFailureTolerated ==
  (observer_errors # {} /\ \A a \in Agents : thread[a] # "raised") =>
    /\ pc # "failed"
    /\ \A e \in observer_errors : task[e[1]] # "raised"

\* The completion clients whose call fails or comes back empty.
FailingLLMs == {OpenAILLM("raise"), OpenAILLM("blank"), OpenAILLM("null")}

\* C4: when the completion call fails or returns empty text, every field of
\* an agent's result equals the templated default, which is what the agent
\* returns when it asks for no refinement (the stub client).
C4_DefaultKeptOnFailedCompletion ==
  \A a \in Agents :
    (thread[a] = "returned" /\ llm \in FailingLLMs)
      => ret[a] = AgentRun(a, payloads[StageOf(a) + 1], StubLLM)

\* An agent has returned with a client whose provider returned empty text.
C4_Witness ==
  /\ llm = OpenAILLM("blank")
  /\ thread["BusinessAgent"] = "returned"
  /\ ret["BusinessAgent"] = AgentRun("BusinessAgent", payloads[2], StubLLM)

\* Every client generate can be called on: the clients of the run, and an
\* LLMClient without a provider client.
GenerateClients == LLMs \cup {UnconfiguredLLM}

\* The client answers from its template, not from the provider.
FallbackMode(client) ==
  \/ client.cls = "DeterministicLLMStub"
  \/ client.client = "None"
  \/ ProviderCall(client.client).raised

\* C5: generate never raises, whatever the prompts and the provider's
\* outcome; in fallback or stub mode the text is non-empty and depends on the
\* two prompts only (every client of the class in that mode returns the same
\* text); and no run fails because of a completion call.
C5_GenerateNeverRaises ==
  /\ \A client \in GenerateClients :
       \A system_prompt \in {"", "Summarise.\nBriefly."}, prompt \in {idea_text, summary} :
         LET reply == Generate(client, system_prompt, prompt)
         IN /\ ~reply.raised
            /\ FallbackMode(client) =>
                 /\ reply.value # ""
                 /\ \A other \in GenerateClients :
                      (other.cls = client.cls /\ FallbackMode(other))
                        => Generate(other, system_prompt, prompt) = reply
  /\ (~agents_fail /\ callback = "none") => pc # "failed"

\* A run finished although the provider raised on every completion call.
C5_Witness ==
  /\ pc = "done"
  /\ llm = OpenAILLM("raise")
  /\ pitch_mode
  /\ summary # ""
  /\ result.pitch # ""

\* The returned BlueprintResult holds the six agents' outputs, the blueprint
\* built from them and the summary.
Delivered ==
  /\ \A a \in Agents : out[a] # NoOutput /\ out[a] = ret[a]
  /\ result.agents = [ idea |-> out["IdeaAgent"], business |-> out["BusinessAgent"],
                       tech |-> out["TechAgent"], design |-> out["DesignAgent"],
                       market |-> out["MarketAgent"], timeline |-> out["TimelineAgent"] ]
  /\ result.blueprint.idea = out["IdeaAgent"]
  /\ result.blueprint.business_model = out["BusinessAgent"]
  /\ result.blueprint.tech_stack = out["TechAgent"]
  /\ result.blueprint.ui_design = out["DesignAgent"]
  /\ result.blueprint.market_analysis = out["MarketAgent"]
  /\ result.blueprint.timeline = out["TimelineAgent"]
  /\ result.blueprint.summary = summary

\* C6: when no agent call and no observer invocation raises (and generate
\* returns, as it always does), every run of build_blueprint, for any idea
\* text and either pitch mode, reaches its return with each of the six
\* agents invoked exactly once and the complete result delivered; no agent
\* is ever invoked twice.
C6_RunTerminates ==
  /\ (pc = "start" /\ ~agents_fail /\ callback # "flaky")
       ~> (pc = "done" /\ Delivered /\ \A a \in Agents : calls[a] = 1)
  /\ [](\A a \in Agents : calls[a] <= 1)

\* A run in pitch mode on the marketplace idea has returned its result.
C6_Witness ==
  /\ pc = "done"
  /\ pitch_mode
  /\ idea_text = IDEA_TEXTS[2]
  /\ Delivered
  /\ \A a \in Agents : calls[a] = 1

\* Every facet of the result carries its core fields.
FacetsPopulated ==
  /\ result.agents.business.model # ""
  /\ result.agents.business.revenue_streams # << >>
  /\ result.agents.tech.stack # << >>
  /\ result.agents.tech.architecture # ""
  /\ result.agents.design.experience_principles # << >>
  /\ result.agents.market.segment # ""
  /\ result.agents.market.differentiators # << >>
  /\ result.agents.timeline.total_duration_weeks > 0
  /\ result.agents.timeline.phases # << >>

\* C7: for an empty or whitespace-only idea text a run without agent or
\* observer failure does not fail, and its result has the default domain
\* "Technology & Innovation", all five facets populated and, with the stub
\* client, a non-empty summary.
C7_EmptyIdeaCompleteResult ==
  (Strip(idea_text) = "" /\ ~agents_fail /\ callback # "flaky") =>
    /\ pc # "failed"
    /\ pc = "done" =>
         /\ Delivered
         /\ result.agents.idea.domain = "Technology & Innovation"
         /\ FacetsPopulated
         /\ llm = StubLLM => result.blueprint.summary # ""

\* A run on the whitespace-only idea text has returned with the stub client.
C7_Witness ==
  /\ pc = "done"
  /\ idea_text = IDEA_TEXTS[3]
  /\ llm = StubLLM
  /\ result.agents.idea.domain = "Technology & Innovation"
  /\ result.blueprint.summary # ""

\* C8: for an empty or whitespace-only idea text every agent returns what it
\* returns when the payload carries the placeholder idea text instead.
C8_EmptyIdeaEqualsPlaceholderRun ==
  \A a \in Agents :
    (Strip(idea_text) = "" /\ thread[a] = "returned")
      => ret[a] = AgentRun(a, StagePayload(StageOf(a), PLACEHOLDER_IDEA, out), llm)

\* The idea agent does return the placeholder's result for the empty text.
C8_Witness ==
  /\ idea_text = ""
  /\ thread["IdeaAgent"] = "returned"
  /\ ret["IdeaAgent"] = AgentRun("IdeaAgent", StagePayload(0, PLACEHOLDER_IDEA, out), llm)

\* C9: once an agent call has raised, build_blueprint never reaches its
\* summary or its return, delivers no blueprint and no result, never starts
\* an agent of a later stage, and ends up raising.
C9_FailsAsAWhole ==
  /\ [](\A a \in Agents :
          thread[a] = "raised" =>
            /\ pc \notin {"summarize", "pitch", "done"}
            /\ blueprint = NoOutput
            /\ result = NoOutput
            /\ \A b \in Agents :
                 StageOf(b) > StageOf(a) =>
                   (task[b] = "none" /\ thread[b] = "idle" /\ calls[b] = 0))
  /\ ((\E a \in Agents : thread[a] = "raised") ~> (pc = "failed"))

\* The run failed on TechAgent while BusinessAgent had already returned.
C9_Witness ==
  /\ pc = "failed"
  /\ thread["TechAgent"] = "raised"
  /\ thread["BusinessAgent"] = "returned"
  /\ task["DesignAgent"] = "none"

StartsWith(s, prefix) ==
  Len(s) >= Len(prefix) /\ SubSeq(s, 1, Len(prefix)) = prefix

\* s ends with suffix.
EndsWith(s, suffix) ==
  Len(s) >= Len(suffix) /\ SubSeq(s, Len(s) - Len(suffix) + 1, Len(s)) = suffix

\* C13: in every returned result the synthesizers used the complexity and the
\* domain of the idea agent's output: the three complexity labels are its
\* title-cased complexity, the timeline's total weeks and phase durations are
\* those of that complexity, and each facet carries the template of the
\* category of that domain.
C13_ExtractorValuesReused ==
  pc = "done" =>
    LET idea == result.agents.idea
        complexity == idea.execution_complexity
        category == resolve_category(idea.domain)
        business == TemplateFor(BUSINESS_TEMPLATES, category)
        tech == TemplateFor(TECH_TEMPLATES, category)
        design == TemplateFor(DESIGN_TEMPLATES, category)
        market == TemplateFor(MARKET_TEMPLATES, category)
        notes == TemplateFor(TIMELINE_NOTES, category)
    IN /\ result.agents.business.complexity_profile = Title(complexity)
       /\ result.agents.design.design_complexity = Title(complexity)
       /\ result.agents.market.go_to_market_intent = Title(complexity)
       /\ result.agents.timeline.total_duration_weeks = TIMELINE_TOTAL[complexity]
       /\ \A idx \in 1..Len(PHASE_NAMES) :
            result.agents.timeline.phases[idx].duration = TIMELINE_WINDOWS[complexity][idx]
       /\ StartsWith(result.agents.timeline.cadence_notes, Title(complexity) \o " cadence")
       /\ StartsWith(result.agents.business.pricing_strategy, business.pricing)
       /\ StartsWith(result.agents.business.revenue_streams, Dedupe(business.revenue))
       /\ result.agents.tech.data_strategy = tech.data
       /\ StartsWith(result.agents.tech.stack, Dedupe(tech.stack))
       /\ result.agents.design.visual_language = design.visual
       /\ StartsWith(result.agents.design.key_screens, Dedupe(design.key_screens))
       /\ result.agents.market.segment = market.segment
       /\ result.agents.market.launch_strategy = market.launch
       /\ EndsWith(result.agents.timeline.cadence_notes, "Launch focus: " \o notes.launch)

\* A returned run whose idea is neither of the default domain nor of the
\* default complexity: its facets carry the Sustainability templates and the
\* 26-week plan.
C13_Witness ==
  /\ pc = "done"
  /\ result.agents.idea.domain = "Sustainability & Climate"
  /\ result.agents.idea.execution_complexity = "complex"
  /\ result.agents.business.complexity_profile = "Complex"
  /\ result.agents.timeline.total_duration_weeks = 26
  /\ result.agents.market.segment = MARKET_TEMPLATES["Sustainability"].segment

\* C16: the pitch request is made at most once, only when pitch_mode is set,
\* and only after the timeline agent's run_agent is done and the blueprint
\* with its summary is assembled; a returned run has made exactly one request
\* if pitch_mode is set and none otherwise, and without pitch_mode its pitch
\* is the empty text.
C16_PitchRequestedOnce ==
  /\ pitch_requests <= 1
  /\ ~pitch_mode => pitch_requests = 0
  /\ pitch_requests = 1 =>
       /\ task["TimelineAgent"] = "done"
       /\ out["TimelineAgent"] = ret["TimelineAgent"]
       /\ blueprint # NoOutput
       /\ blueprint.timeline = out["TimelineAgent"]
       /\ blueprint.summary = summary
  /\ pc \in {"start", "stage0", "stage1", "stage2", "stage3", "summarize", "pitch"}
       => pitch_requests = 0
  /\ pc = "done" =>
       /\ pitch_requests = (IF pitch_mode THEN 1 ELSE 0)
       /\ result.blueprint = blueprint
       /\ ~pitch_mode => result.pitch = ""

\* A run in pitch mode has returned with a pitch text after its one request.
C16_Witness ==
  /\ pc = "done"
  /\ pitch_mode
  /\ pitch_requests = 1
  /\ result.pitch # ""
  /\ result.blueprint.summary = summary

\* C18: the timeline an agent call returned, and the timeline of every
\* returned result, carries as business_alignment the model of the business
\* output of the same run and as tech_alignment the architecture of its tech
\* output, never the defaults.
C18_TimelineAlignment ==
  /\ thread["TimelineAgent"] = "returned" =>
       /\ ret["TimelineAgent"].business_alignment = ret["BusinessAgent"].model
       /\ ret["TimelineAgent"].tech_alignment = ret["TechAgent"].architecture
  /\ pc = "done" =>
       /\ result.agents.timeline.business_alignment = result.agents.business.model
       /\ result.agents.timeline.tech_alignment = result.agents.tech.architecture
       /\ result.blueprint.timeline.business_alignment = result.blueprint.business_model.model
       /\ result.blueprint.timeline.tech_alignment = result.blueprint.tech_stack.architecture
       /\ result.agents.timeline.business_alignment # "Model TBD"
       /\ result.agents.timeline.tech_alignment # "Architecture TBD"

\* A returned run whose architecture text was refined by the provider: the
\* timeline carries the refined text, not the template's.
C18_Witness ==
  /\ pc = "done"
  /\ llm = OpenAILLM("text")
  /\ result.agents.tech.architecture # get_tech_playbook(result.agents.idea.domain,
       result.agents.idea.attributes, result.agents.idea.execution_complexity).architecture
  /\ result.agents.timeline.tech_alignment = result.agents.tech.architecture
  /\ result.agents.timeline.business_alignment = result.agents.business.model

\* ------------------------------------------------------------------------
\* Properties of the facet synthesizers
\* ------------------------------------------------------------------------

\* The category whose templates the synthesizers use for the bundle.
BundleCategory ==
  LET resolved == resolve_category(bundle.domain)
  IN IF resolved \in DOMAIN BUSINESS_TEMPLATES THEN resolved ELSE "Innovation"

\* Every facet synthesizer has been called and called again.
AllCalledTwice ==
  \A a \in Facets : first[a] # NoOutput /\ again[a] # NoOutput

NoDuplicates(items) == \A i, j \in 1..Len(items) : items[i] = items[j] => i = j

\* The list fields of the playbooks: the agent and output field, the template
\* dictionary and field they start from, and the entries the augmentation
\* rules append, each with its flag, in rule order.
LIST_FIELDS ==
  << [ agent |-> "BusinessAgent", field |-> "revenue_streams",
       templates |-> "BUSINESS_TEMPLATES", from |-> "revenue",
       rules |-> << << "marketplace", "Curated marketplace commissions and vendor sponsorships" >>,
                    << "developer", "Usage-based API tier with premium tooling bundles" >>,
                    << "community", "Community membership and certification programs" >> >> ],
     [ agent |-> "BusinessAgent", field |-> "partners",
       templates |-> "BUSINESS_TEMPLATES", from |-> "partners",
       rules |-> << << "enterprise", "Enterprise enablement consultancies" >> >> ],
     [ agent |-> "BusinessAgent", field |-> "key_metrics",
       templates |-> "BUSINESS_TEMPLATES", from |-> "key_metrics",
       rules |-> << << "regulatory", "Regulatory milestone velocity" >> >> ],
     [ agent |-> "BusinessAgent", field |-> "sales_enablement",
       templates |-> "BUSINESS_TEMPLATES", from |-> "enablement",
       rules |-> << << "developer", "Developer-first documentation and SDK launch kit" >>,
                    << "enterprise", "Executive risk mitigation narrative" >> >> ],
     [ agent |-> "TechAgent", field |-> "stack",
       templates |-> "TECH_TEMPLATES", from |-> "stack",
       rules |-> << << "realtime", "Event streaming backbone (Kafka / Pulsar)" >>,
                    << "hardware", "IoT ingestion via MQTT/Greengrass" >>,
                    << "mobile", "React Native / Expo mobile shell" >> >> ],
     [ agent |-> "TechAgent", field |-> "ai_components",
       templates |-> "TECH_TEMPLATES", from |-> "ai",
       rules |-> << << "realtime", "Real-time signal prioritisation agent" >>,
                    << "marketplace", "Marketplace liquidity forecaster" >> >> ],
     [ agent |-> "TechAgent", field |-> "service_components",
       templates |-> "TECH_TEMPLATES", from |-> "service",
       rules |-> << << "marketplace", "Supply-demand matching engine" >>,
                    << "hardware", "Edge device fleet manager" >> >> ],
     [ agent |-> "TechAgent", field |-> "devops",
       templates |-> "TECH_TEMPLATES", from |-> "devops",
       rules |-> << << "developer", "Developer sandbox orchestration" >>,
                    << "enterprise", "Policy-as-code with Conftest / OPA" >> >> ],
     [ agent |-> "TechAgent", field |-> "integration_points",
       templates |-> "TECH_TEMPLATES", from |-> "integration",
       rules |-> << << "developer", "CLI and SDK distribution pipeline" >> >> ],
     [ agent |-> "DesignAgent", field |-> "experience_principles",
       templates |-> "DESIGN_TEMPLATES", from |-> "principles",
       rules |-> << << "developer", "Expose system status for advanced users" >>,
                    << "regulatory", "Surface compliance guardrails contextually" >> >> ],
     [ agent |-> "DesignAgent", field |-> "key_screens",
       templates |-> "DESIGN_TEMPLATES", from |-> "key_screens",
       rules |-> << << "marketplace", "Supply & demand orchestration board" >>,
                    << "community", "Community pulse and ambassador missions" >> >> ],
     [ agent |-> "DesignAgent", field |-> "interaction_patterns",
       templates |-> "DESIGN_TEMPLATES", from |-> "interaction",
       rules |-> << << "developer", "Keyboard-first power commands" >>,
                    << "regulatory", "Audit-ready export flows" >> >> ],
     [ agent |-> "MarketAgent", field |-> "competitors",
       templates |-> "MARKET_TEMPLATES", from |-> "competitors",
       rules |-> << >> ],
     [ agent |-> "MarketAgent", field |-> "differentiators",
       templates |-> "MARKET_TEMPLATES", from |-> "differentiators",
       rules |-> << << "marketplace", "Orchestrates dual-sided market dynamics with agent intelligence" >>,
                    << "regulatory", "Compliance telemetry wired into every blueprint" >> >> ],
     [ agent |-> "MarketAgent", field |-> "personas",
       templates |-> "MARKET_TEMPLATES", from |-> "personas",
       rules |-> << << "developer", "Lead platform engineer" >> >> ],
     [ agent |-> "MarketAgent", field |-> "marketing_channels",
       templates |-> "MARKET_TEMPLATES", from |-> "channels",
       rules |-> << << "community", "Community-led roundtables and ambassador streams" >>,
                    << "developer", "Open-source and developer relations campaigns" >> >> ],
     [ agent |-> "MarketAgent", field |-> "market_challenges",
       templates |-> "MARKET_TEMPLATES", from |-> "challenges",
       rules |-> << << "marketplace", "Need to balance supply and demand narratives early" >> >> ] >>

\* The output list is the template's entries in template order, then entries
\* of active rules in rule order, each entry once; an active rule's entry is
\* in the list (the mobile shell only if the stack names no React Native yet).
ListAsSpecified(spec, output) ==
  LET template == TemplateCatalog[spec.templates][BundleCategory][spec.from]
      items == output[spec.field]
      tail == SubSeq(items, Len(template) + 1, Len(items))
      RuleOf(entry) == {r \in 1..Len(spec.rules) : spec.rules[r][2] = entry}
  IN /\ NoDuplicates(items)
     /\ NoDuplicates(template)
     /\ StartsWith(items, template)
     /\ \A i \in 1..Len(tail) :
          /\ RuleOf(tail[i]) # {}
          /\ \A r \in RuleOf(tail[i]) : bundle.attributes[spec.rules[r][1]]
     /\ \A i, j \in 1..Len(tail) :
          i < j => \A r \in RuleOf(tail[i]), q \in RuleOf(tail[j]) : r < q
     /\ \A r \in 1..Len(spec.rules) :
          (bundle.attributes[spec.rules[r][1]] /\ spec.rules[r][1] # "mobile")
            => InList(spec.rules[r][2], items)

\* C14: for every FeatureBundle, every list field a facet synthesizer returns
\* has no entry twice and keeps first-seen order: the template's entries in
\* template order, then the entries of the augmentation rules in rule order;
\* the timeline's milestones and phases have no entry twice either.
C14_ListsDeduplicatedInOrder ==
  /\ \A k \in 1..Len(LIST_FIELDS) :
       first[LIST_FIELDS[k].agent] # NoOutput
         => ListAsSpecified(LIST_FIELDS[k], first[LIST_FIELDS[k].agent])
  /\ first["TimelineAgent"] # NoOutput =>
       /\ NoDuplicates(first["TimelineAgent"].milestones)
       /\ StartsWith(first["TimelineAgent"].milestones, BASE_MILESTONES)
       /\ NoDuplicates(first["TimelineAgent"].phases)
       /\ Len(first["TimelineAgent"].phases) = Len(PHASE_NAMES)

\* A bundle with five flags set (that of IDEA_TEXTS[2]): the revenue streams
\* are the template's three followed by the marketplace and the developer
\* stream, in that order.
C14_Witness ==
  /\ first["TimelineAgent"] # NoOutput
  /\ bundle.attributes = detect_attributes(IDEA_TEXTS[2])
  /\ bundle.attributes["marketplace"] /\ bundle.attributes["developer"]
  /\ first["BusinessAgent"].revenue_streams =
       BUSINESS_TEMPLATES[BundleCategory].revenue
         \o << "Curated marketplace commissions and vendor sponsorships",
               "Usage-based API tier with premium tooling bundles" >>
  /\ Len(first["TimelineAgent"].milestones) = Len(BASE_MILESTONES) + 1

C17_DesignIndependentOfUpstream ==
  (again["DesignAgent"] # NoOutput /\ FallbackMode(llm))
    => again["DesignAgent"].result = first["DesignAgent"]

\* The design agent was called again without upstream results, on a bundle
\* for which the business and tech agents had returned theirs.
C17_Witness ==
  /\ again["DesignAgent"] # NoOutput
  /\ again["DesignAgent"].upstream = "none"
  /\ first["BusinessAgent"].model # ""
  /\ RepeatPayload("DesignAgent", "none").business_context
       # SynthPayload("DesignAgent").business_context
  /\ again["DesignAgent"].result = first["DesignAgent"]
  /\ bundle.attributes["regulatory"]

\* ------------------------------------------------------------------------
\* Refinement by the completion client
\* ------------------------------------------------------------------------

\* The fields of each facet result that the agent replaces by the client's
\* text when the client returns one.
REFINED_FIELDS ==
  [ BusinessAgent |-> {"expansion_strategy"},
    TechAgent |-> {"architecture", "resilience_notes"},
    DesignAgent |-> {"inspiration_references"},
    MarketAgent |-> {"positioning_statement", "momentum_notes"},
    TimelineAgent |-> {"risk_watchlist"} ]

\* The outputs of a whole run on this idea text with the stub client.
StubOutputs(text) ==
  LET none == [a \in Agents |-> NoOutput]
      idea == AgentRun("IdeaAgent", StagePayload(0, text, none), StubLLM)
      after0 == [none EXCEPT !["IdeaAgent"] = idea]
      business == AgentRun("BusinessAgent", StagePayload(1, text, after0), StubLLM)
      tech == AgentRun("TechAgent", StagePayload(1, text, after0), StubLLM)
      after1 == [after0 EXCEPT !["BusinessAgent"] = business, !["TechAgent"] = tech]
      design == AgentRun("DesignAgent", StagePayload(2, text, after1), StubLLM)
      market == AgentRun("MarketAgent", StagePayload(2, text, after1), StubLLM)
      after2 == [after1 EXCEPT !["DesignAgent"] = design, !["MarketAgent"] = market]
      timeline == AgentRun("TimelineAgent", StagePayload(3, text, after2), StubLLM)
  IN [after2 EXCEPT !["TimelineAgent"] = timeline]

\* C19: whatever the client returns (a text, a blank, nothing, an error),
\* every field of a facet result other than the refined prose fields equals
\* the field of the result the agent returns with the stub client on the same
\* payload; and in a returned run every such field that is not a copy of an
\* upstream prose field equals that of the stub run on the same idea text.
C19_RefinementReplacesProseOnly ==
  /\ \A a \in Facets :
       (thread[a] = "returned" /\ UsesProvider(llm)) =>
         LET stub == AgentRun(a, payloads[StageOf(a) + 1], StubLLM)
         IN /\ DOMAIN ret[a] = DOMAIN stub
            /\ \A f \in DOMAIN stub \ REFINED_FIELDS[a] : ret[a][f] = stub[f]
  /\ (pc = "done" /\ UsesProvider(llm)) =>
       LET stub == StubOutputs(idea_text)
       IN \A a \in Facets :
            \A f \in DOMAIN stub[a] \ (REFINED_FIELDS[a] \cup {"tech_alignment"}) :
              out[a][f] = stub[a][f]

\* A returned run whose provider answered with a text: the prose fields carry
\* it, the lists, the pricing, the model, the go-to-market text and the
\* timeline phases are those of the stub run.
C19_Witness ==
  /\ pc = "done"
  /\ llm = OpenAILLM("text")
  /\ idea_text = IDEA_TEXTS[2]
  /\ LET stub == StubOutputs(idea_text)
     IN /\ \A a \in Facets : \A f \in REFINED_FIELDS[a] : out[a][f] # stub[a][f]
        /\ out["BusinessAgent"].revenue_streams = stub["BusinessAgent"].revenue_streams
        /\ out["BusinessAgent"].pricing_strategy = stub["BusinessAgent"].pricing_strategy
        /\ out["BusinessAgent"].model = stub["BusinessAgent"].model
        /\ out["BusinessAgent"].go_to_market = stub["BusinessAgent"].go_to_market
        /\ out["TimelineAgent"].phases = stub["TimelineAgent"].phases
        /\ out["TimelineAgent"].total_duration_weeks = stub["TimelineAgent"].total_duration_weeks

\* ------------------------------------------------------------------------
\* Properties of assess_complexity
\* ------------------------------------------------------------------------

\* The tier the scoring rule gives for a word count and a set of active
\* attributes: weight 2 for regulatory, marketplace and hardware, 1 for the
\* others.
TierOf(words, active) ==
  LET heavy == {"regulatory", "marketplace", "hardware"}
      score == 1 + 2 * Cardinality(active \cap heavy) + Cardinality(active \ heavy)
                 + (IF words > 140 THEN 1 ELSE 0)
                 + (IF words > 220 THEN 1 ELSE 0)
                 + (IF {"regulatory", "marketplace"} \subseteq active THEN 1 ELSE 0)
  IN IF score >= 6 THEN "complex" ELSE IF score >= 3 THEN "standard" ELSE "lean"

\* C20: for every combination of the ten attribute flags and every word count
\* tried, assess_complexity returns the tier of the score 1 + the weights of
\* the active attributes + 1 above 140 words + 1 above 220 words + 1 if
\* regulatory and marketplace are both active: complex from 6, standard from
\* 3, lean below.
C20_ComplexityTier ==
  bundle.execution_complexity # "" =>
    \E n \in WORD_COUNTS :
      /\ idea_text = WORD_TEXTS[n]
      /\ bundle.execution_complexity =
           TierOf(n, {a \in AttributeNames : bundle.attributes[a]})

\* A 141-word text with only data_heavy set is standard (score 3); the same
\* flags on 140 words would score 2.
C20_Witness ==
  /\ idea_text = WORD_TEXTS[141]
  /\ {a \in AttributeNames : bundle.attributes[a]} = {"data_heavy"}
  /\ bundle.execution_complexity = "standard"
  /\ TierOf(140, {"data_heavy"}) = "lean"

\* ------------------------------------------------------------------------
\* Properties of successive and concurrent runs
\* ------------------------------------------------------------------------

DomainCategories == {DOMAIN_ORDER[i] : i \in 1..Len(DOMAIN_ORDER)}

\* The lowercased tokens of all category names.
CategoryTokens == UNION {DomainTokens(d) : d \in DomainCategories}

\* C21: the FeatureBundle the extractor returns has a complexity that is lean,
\* standard or complex and a domain that is one of the fixed categories, which
\* is Technology & Innovation when no token of a category name occurs in the
\* lowercased idea text.
C21_BundleDomainAndComplexity ==
  thread["IdeaAgent"] = "returned" =>
    LET fb == ret["IdeaAgent"]
    IN /\ fb.execution_complexity \in {"lean", "standard", "complex"}
       /\ fb.domain \in DomainCategories
       /\ ~ContainsAny(Lower(EffectiveIdea(idea_text)), CategoryTokens)
            => fb.domain = "Technology & Innovation"

\* The extractor has returned for a text in which no category token occurs:
\* the domain is the default one.
C21_Witness ==
  /\ thread["IdeaAgent"] = "returned"
  /\ Strip(idea_text) # ""
  /\ ~ContainsAny(Lower(EffectiveIdea(idea_text)), CategoryTokens)
  /\ ret["IdeaAgent"].domain = "Technology & Innovation"
  /\ ret["IdeaAgent"].execution_complexity \in {"lean", "standard", "complex"}

\* ------------------------------------------------------------------------
\* Properties of the timeline
\* ------------------------------------------------------------------------

\* The number a string of decimal digits denotes.
RECURSIVE ParseNat(_)
ParseNat(s) ==
  IF s = "" THEN 0
  ELSE 10 * ParseNat(SubSeq(s, 1, Len(s) - 1))
         + (CHOOSE d \in 0..9 : Char(DIGITS, d + 1) = Char(s, Len(s)))

\* The first and the last week of a window "Weeks a-b".
WindowStart(window) == ParseNat(SubSeq(BeforeFirst(window, "-"), Len("Weeks ") + 1,
                                       Len(BeforeFirst(window, "-"))))

WindowEnd(window) == ParseNat(SubSeq(window, Len(BeforeFirst(window, "-")) + 2, Len(window)))

\* C22: the timeline of a tier has five phases with the fixed names in order,
\* the tier's five windows, and the tier's total (16, 22, 26 weeks); the
\* windows start at week 1, each starts the week after the one before ends,
\* and the last ends at the total, for every domain and attribute dict.
C22_TimelineProfile ==
  first["TimelineAgent"] # NoOutput =>
    LET timeline == first["TimelineAgent"]
        tier == bundle.execution_complexity
        phases == timeline.phases
        total == timeline.total_duration_weeks
    IN /\ tier \in {"lean", "standard", "complex"}
       /\ Len(phases) = 5
       /\ [i \in 1..5 |-> phases[i].phase] =
            << "Discovery & Insight Sprint", "Experience Blueprinting",
               "MVP Build & Instrumentation", "Pilot & Iteration Loop",
               "Launch & Scale Enablement" >>
       /\ [i \in 1..5 |-> phases[i].duration] =
            CASE tier = "lean" ->
                   << "Weeks 1-2", "Weeks 3-5", "Weeks 6-9", "Weeks 10-13", "Weeks 14-16" >>
              [] tier = "standard" ->
                   << "Weeks 1-3", "Weeks 4-7", "Weeks 8-13", "Weeks 14-18", "Weeks 19-22" >>
              [] tier = "complex" ->
                   << "Weeks 1-4", "Weeks 5-9", "Weeks 10-16", "Weeks 17-22", "Weeks 23-26" >>
       /\ total = (CASE tier = "lean" -> 16 [] tier = "standard" -> 22 [] tier = "complex" -> 26)
       /\ WindowStart(phases[1].duration) = 1
       /\ \A i \in 1..4 : WindowStart(phases[i + 1].duration) = WindowEnd(phases[i].duration) + 1
       /\ \A i \in 1..5 : WindowStart(phases[i].duration) <= WindowEnd(phases[i].duration)
       /\ WindowEnd(phases[5].duration) = total

\* A complex timeline for a domain other than the default one: 26 weeks from
\* "Weeks 1-4" to "Weeks 23-26".
C22_Witness ==
  /\ first["TimelineAgent"] # NoOutput
  /\ bundle.execution_complexity = "complex"
  /\ bundle.domain = "Finance & Fintech"
  /\ first["TimelineAgent"].total_duration_weeks = 26
  /\ first["TimelineAgent"].phases[1].duration = "Weeks 1-4"
  /\ first["TimelineAgent"].phases[5].duration = "Weeks 23-26"
  /\ WindowEnd(first["TimelineAgent"].phases[5].duration) = 26

\* ------------------------------------------------------------------------
\* Properties of the business synthesizer
\* ------------------------------------------------------------------------

\* The business result has the compliance-fee sentence in its pricing and the
\* regulatory metric among its key metrics if the flag is set, and neither if
\* it is not.
RegulatoryReflected(business, regulatory) ==
  /\ Contains(business.pricing_strategy,
              " Include compliance assurance fees for bespoke reviews.") <=> regulatory
  /\ InList("Regulatory milestone velocity", business.key_metrics) <=> regulatory

\* C23: for every domain, audience and attribute dict, the result of the
\* business synthesizer (first and repeated call) has the compliance-fee
\* sentence in pricing_strategy and "Regulatory milestone velocity" in
\* key_metrics exactly when the regulatory attribute is true.
C23_RegulatoryPricingAndMetric ==
  /\ first["BusinessAgent"] # NoOutput =>
       RegulatoryReflected(first["BusinessAgent"], bundle.attributes["regulatory"])
  /\ again["BusinessAgent"] # NoOutput =>
       RegulatoryReflected(again["BusinessAgent"].result, bundle.attributes["regulatory"])

\* A business result for a regulated idea outside the default domain: the
\* pricing starts with the template's followed by the compliance sentence, and the
\* regulatory metric is the last key metric.
C23_Witness ==
  /\ first["BusinessAgent"] # NoOutput
  /\ bundle.attributes["regulatory"]
  /\ bundle.domain = "Healthcare & Wellness"
  /\ StartsWith(first["BusinessAgent"].pricing_strategy,
                BUSINESS_TEMPLATES["Healthcare"].pricing
                  \o " Include compliance assurance fees for bespoke reviews.")
  /\ first["BusinessAgent"].key_metrics =
       BUSINESS_TEMPLATES["Healthcare"].key_metrics \o << "Regulatory milestone velocity" >>

\* ------------------------------------------------------------------------
\* The marketplace example
\* ------------------------------------------------------------------------

\* "A marketplace for climate-tech hardware sensors connecting regulated
\* enterprise buyers and vendors"
MarketplaceIdea == IDEA_TEXTS[2]

\* C24: a returned run on the marketplace example has complexity "complex",
\* the marketplace-commission entry among the business revenue streams, and
\* business partners that are the template's partners with the enterprise
\* partner entry added.
C24_MarketplaceExample ==
  (pc = "done" /\ idea_text = MarketplaceIdea) =>
    LET business == result.agents.business
        template == BUSINESS_TEMPLATES[resolve_category(result.agents.idea.domain)]
    IN /\ result.agents.idea.execution_complexity = "complex"
       /\ InList("Curated marketplace commissions and vendor sponsorships",
                 business.revenue_streams)
       /\ ~InList("Curated marketplace commissions and vendor sponsorships", template.revenue)
       /\ business.partners = template.partners \o << "Enterprise enablement consultancies" >>

\* A run on the marketplace example has returned, with the commission entry
\* right after the template's revenue streams.
C24_Witness ==
  /\ pc = "done"
  /\ idea_text = MarketplaceIdea
  /\ result.agents.idea.execution_complexity = "complex"
  /\ result.blueprint.business_model.revenue_streams[
       Len(BUSINESS_TEMPLATES["Sustainability"].revenue) + 1] =
         "Curated marketplace commissions and vendor sponsorships"
  /\ InList("Enterprise enablement consultancies", result.agents.business.partners)

\* The attribute dict in which exactly these flags are set.
FlagsSet(active) == [name \in AttributeNames |-> name \in active]

Called(op) == last_call # None /\ last_call.op = op

\* The document is the record of the save: same idea text, analyzer outputs,
\* blueprint and pitch.
SameRecord(doc, saved) ==
  /\ doc \notin {None, Raised}
  /\ doc.idea_text = saved.idea_text
  /\ doc.agents_output = saved.agents_output
  /\ doc.blueprint = saved.blueprint
  /\ doc.pitch = saved.pitch

\* C26: for every run id a save_run call returned, a later get_run with that id
\* returns the record that call saved, on either backend and whatever database
\* errors occurred at the save or since.
C26_RoundTrip ==
  Called("get_run") =>
    \A k \in DOMAIN saves :
      saves[k].run_id = last_call.run_id => SameRecord(last_call.value, saves[k])

\* C27: list_runs(limit) returns the min(limit, number saved) most recently
\* saved runs, most recent first, also when saves fell back to files.
C27_ListMostRecent ==
  Called("list_runs") =>
    LET n == IF last_call.limit < Len(saves) THEN last_call.limit ELSE Len(saves)
    IN  /\ Len(last_call.value) = n
        /\ \A i \in 1..n :
             /\ last_call.value[i].id = saves[Len(saves) + 1 - i].run_id
             /\ last_call.value[i].idea_text = saves[Len(saves) + 1 - i].idea_text

\* C30: every save_run call returns a run id that no earlier save returned, so
\* that no save replaces a stored run.
C30_DistinctRunIds ==
  \A i, j \in DOMAIN saves : i # j => saves[i].run_id # saves[j].run_id

\* C28: when saving a freshly generated run raises, main shows a warning and
\* the session holds the blueprint, the analyzer outputs and the pitch exactly
\* as generated.
C28_SaveFailureNonFatal ==
  (Called("generate") /\ last_call.raised) =>
    /\ session.notice = "warning"
    /\ session.blueprint = last_call.value.blueprint
    /\ session.agents_output = last_call.value.agents
    /\ session.pitch_text = last_call.value.pitch

\* A run was saved, then another idea's fresh run could not be saved: the
\* session shows the fresh run, under the run id of the saved one.
C28_Witness ==
  /\ Called("generate")
  /\ last_call.raised
  /\ session.notice = "warning"
  /\ Len(saves) = 1
  /\ session.latest_run_id = saves[1].run_id
  /\ session.blueprint = last_call.value.blueprint
  /\ session.blueprint # saves[1].blueprint
  /\ session.pitch_text # saves[1].pitch

\* A step of a worker thread: it picks an agent.run call up, or the call ends.
WorkerStep ==
  \E a \in Agents :
    \/ thread[a] = "queued" /\ thread'[a] = "running"
    \/ thread[a] = "running" /\ thread'[a] # "running"

\* C29: the observer is invoked one call at a time and on the orchestrator's
\* own control flow: a step that reaches the observer makes exactly one
\* invocation and is no step of a worker thread, also while both agents of a
\* stage run in worker threads.
C29_ObserverSerialized ==
  [][events' # events =>
       /\ Len(events') = Len(events) + 1
       /\ SubSeq(events', 1, Len(events)) = events
       /\ ~WorkerStep]_vars

\* The observer has just been told that BusinessAgent completed while
\* TechAgent is still running in its worker thread.
C29_Witness ==
  /\ callback # "none"
  /\ Len(events) > 0
  /\ events[Len(events)] = << "BusinessAgent", "completed" >>
  /\ thread["TechAgent"] = "running"
====
